---------------------------- MODULE Spec2Model ----------------------------
(***************************************************************************)
(* Cosmozoom backend: the tile endpoints of the NASA imagery tile proxy.   *)
(*                                                                         *)
(* A tile request is followed from the moment the framework                *)
(* receives it, through the parameter validation declared by the Query(...)*)
(* defaults of the handler, through the handler's own checks, to the single*)
(* upstream GET and the response built from its outcome.                   *)
(*                                                                         *)
(* Strings are sequences of one-character strings, so that strip(),        *)
(* lower(), the regular expressions of the Query declarations, strptime()  *)
(* and the f-strings that build the upstream URL are computed, not assumed.*)
(***************************************************************************)
EXTENDS Integers, Sequences, FiniteSets, TLC

VARIABLES
    MAX_ZOOM,   \* mars_service.MAX_ZOOM, read from the environment at import
    pc,         \* "idle" | "fetching" | "done": position of the handler
    req,        \* the request being handled (NoReq when idle)
    tile_url,   \* the upstream URL the handler built (<<>> before that)
    gets,       \* the upstream GETs issued for this request, in order
    response,   \* what client.get gave: a response or a raised exception
    resp,       \* the response sent to the client (NoResp before that)
    handlers    \* the handler coroutines in flight on the event loop, when
                \* several requests are followed at once

vars == <<MAX_ZOOM, pc, req, tile_url, gets, response, resp, handlers>>

-----------------------------------------------------------------------------
(* Bounds of the model *)

\* zoom inputs range over -1 .. MaxZoomInput (above every body's ceiling)
MaxZoomInput == 11
\* number of requests in flight at once on the event loop
MaxInFlight == 2

-----------------------------------------------------------------------------
(* Python string primitives *)

UpperAlpha == <<"A","B","C","D","E","F","G","H","I","J","K","L","M",
                "N","O","P","Q","R","S","T","U","V","W","X","Y","Z">>
LowerAlpha == <<"a","b","c","d","e","f","g","h","i","j","k","l","m",
                "n","o","p","q","r","s","t","u","v","w","x","y","z">>
Digits == <<"0","1","2","3","4","5","6","7","8","9">>
Whitespace == {" ", "\t", "\n", "\r"}

IsDigit(c) == \E k \in 1..10 : Digits[k] = c
DigitVal(c) == (CHOOSE k \in 1..10 : Digits[k] = c) - 1

\* str.lower() on one character / on a string
lower_char(c) ==
    IF \E k \in 1..26 : UpperAlpha[k] = c
    THEN LowerAlpha[CHOOSE k \in 1..26 : UpperAlpha[k] = c]
    ELSE c
lower(s) == [i \in 1..Len(s) |-> lower_char(s[i])]

\* str.upper(), used to build re-cased inputs
upper_char(c) ==
    IF \E k \in 1..26 : LowerAlpha[k] = c
    THEN UpperAlpha[CHOOSE k \in 1..26 : LowerAlpha[k] = c]
    ELSE c
upper(s) == [i \in 1..Len(s) |-> upper_char(s[i])]

\* str.strip(): drop leading and trailing whitespace
strip(s) ==
    LET keep == {i \in 1..Len(s) : s[i] \notin Whitespace}
    IN IF keep = {} THEN <<>>
       ELSE LET lo == CHOOSE i \in keep : \A j \in keep : i <= j
                hi == CHOOSE i \in keep : \A j \in keep : j <= i
            IN SubSeq(s, lo, hi)

\* str(n) for an int, as the f-strings format z, y and x
RECURSIVE NatToStr(_)
NatToStr(n) == IF n < 10 THEN <<Digits[n + 1]>>
               ELSE NatToStr(n \div 10) \o <<Digits[(n % 10) + 1]>>
IntToStr(n) == IF n < 0 THEN <<"-">> \o NatToStr(0 - n) ELSE NatToStr(n)

\* int(s) of a string of decimal digits
RECURSIVE DigitsToNat(_)
DigitsToNat(s) == IF s = <<>> THEN 0
                  ELSE 10 * DigitsToNat(SubSeq(s, 1, Len(s) - 1)) + DigitVal(s[Len(s)])

\* 2 ** z; a handler computes it only for z >= 0 (Query(ge=0) has passed)
RECURSIVE Pow2(_)
Pow2(z) == IF z <= 0 THEN 1 ELSE 2 * Pow2(z - 1)

-----------------------------------------------------------------------------
(* config.py / mars_service.py: string constants *)

GIBS_BASE_URL ==
    <<"h","t","t","p","s",":","/","/","g","i","b","s",".","e","a","r","t","h","d","a","t","a",
    ".","n","a","s","a",".","g","o","v","/","w","m","t","s","/","e","p","s","g","3","8","5","7",
    "/","b","e","s","t">>
EARTH_DEFAULT_LAYER ==
    <<"V","I","I","R","S","_","S","N","P","P","_","C","o","r","r","e","c","t","e","d","R","e",
    "f","l","e","c","t","a","n","c","e","_","T","r","u","e","C","o","l","o","r">>
EARTH_DEFAULT_DATE == <<"2","0","2","5","-","1","0","-","0","3">>
EARTH_DEFAULT_TMS ==
    <<"G","o","o","g","l","e","M","a","p","s","C","o","m","p","a","t","i","b","l","e","_","L",
    "e","v","e","l","9">>
EARTH_DEFAULT_FORMAT == <<"j","p","g">>
TREK_MOON_BASE_URL ==
    <<"h","t","t","p","s",":","/","/","t","r","e","k",".","n","a","s","a",".","g","o","v","/",
    "t","i","l","e","s","/","M","o","o","n","/","E","Q">>
MOON_DEFAULT_LAYER ==
    <<"L","R","O","_","W","A","C","_","M","o","s","a","i","c","_","G","l","o","b","a","l","_",
    "3","0","3","p","p","d","_","v","0","2">>
MOON_DEFAULT_VERSION == <<"1",".","0",".","0">>
MOON_DEFAULT_STYLE == <<"d","e","f","a","u","l","t">>
MOON_DEFAULT_TMS == <<"d","e","f","a","u","l","t","0","2","8","m","m">>
MOON_DEFAULT_FORMAT == <<"j","p","g">>
TREK_MARS_BASE_URL ==
    <<"h","t","t","p","s",":","/","/","t","r","e","k",".","n","a","s","a",".","g","o","v","/",
    "t","i","l","e","s","/","M","a","r","s","/","E","Q">>
MARS_DEFAULT_LAYER ==
    <<"M","a","r","s","_","V","i","k","i","n","g","_","M","D","I","M","2","1","_","C","l","r",
    "M","o","s","a","i","c","_","g","l","o","b","a","l","_","2","3","2","m">>
MARS_DEFAULT_VERSION == <<"1",".","0",".","0">>
MARS_DEFAULT_STYLE == <<"d","e","f","a","u","l","t">>
MARS_DEFAULT_TMS == <<"d","e","f","a","u","l","t","0","2","8","m","m">>
MARS_DEFAULT_FORMAT == <<"j","p","g">>
TREK_MERCURY_BASE_URL ==
    <<"h","t","t","p","s",":","/","/","t","r","e","k",".","n","a","s","a",".","g","o","v","/",
    "t","i","l","e","s","/","M","e","r","c","u","r","y","/","E","Q">>
MERCURY_DEFAULT_LAYER ==
    <<"M","e","r","c","u","r","y","_","M","E","S","S","E","N","G","E","R","_","M","D","I","S",
    "_","B","a","s","e","m","a","p","_","E","n","h","a","n","c","e","d","C","o","l","o","r","_",
    "M","o","s","a","i","c","_","G","l","o","b","a","l","_","6","6","5","m">>
MERCURY_DEFAULT_VERSION == <<"1",".","0",".","0">>
MERCURY_DEFAULT_STYLE == <<"d","e","f","a","u","l","t">>
MERCURY_DEFAULT_TMS == <<"d","e","f","a","u","l","t","0","2","8","m","m">>
MERCURY_DEFAULT_FORMAT == <<"j","p","g">>

-----------------------------------------------------------------------------
(* String literals of the source and of the inputs *)

S_jpg == <<"j","p","g">>
S_jpeg == <<"j","p","e","g">>
S_png == <<"p","n","g">>
S_png8 == <<"p","n","g","8">>
S_tif == <<"t","i","f">>
S_tiff == <<"t","i","f","f">>
S_JPG == <<"J","P","G">>
S_Jpg == <<"J","p","g">>
S_gif == <<"g","i","f">>
S_invalid == <<"i","n","v","a","l","i","d">>
S_default == <<"d","e","f","a","u","l","t">>
S_public_max_age == <<"p","u","b","l","i","c",","," ","m","a","x","-","a","g","e","=">>
S_image_slash == <<"i","m","a","g","e","/">>
S_slash == <<"/">>
S_dot == <<".">>
S_times == <<"×">>
VIKING_ID ==
    <<"M","a","r","s","_","V","i","k","i","n","g","_","M","D","I","M","2","1","_","C","l","r",
    "M","o","s","a","i","c","_","g","l","o","b","a","l","_","2","3","2","m">>
MOLA_ID ==
    <<"M","a","r","s","_","M","G","S","_","M","O","L","A","_","M","E","G","R","_","g","l","o",
    "b","a","l","_","4","6","3","m">>
K_viking_id ==
    <<"m","a","r","s","_","v","i","k","i","n","g","_","m","d","i","m","2","1","_","c","l","r",
    "m","o","s","a","i","c","_","g","l","o","b","a","l","_","2","3","2","m">>
K_viking == <<"v","i","k","i","n","g">>
K_viking_color_mosaic ==
    <<"v","i","k","i","n","g"," ","c","o","l","o","r"," ","m","o","s","a","i","c">>
K_mars_viking == <<"m","a","r","s","_","v","i","k","i","n","g">>
K_mola_id ==
    <<"m","a","r","s","_","m","g","s","_","m","o","l","a","_","m","e","g","r","_","g","l","o",
    "b","a","l","_","4","6","3","m">>
K_mola == <<"m","o","l","a">>
K_mola_elevation == <<"m","o","l","a"," ","e","l","e","v","a","t","i","o","n">>
K_mars_mgs_mola == <<"m","a","r","s","_","m","g","s","_","m","o","l","a">>
L_VIKING == <<"V","I","K","I","N","G">>
L_Viking_padded == <<" "," ","V","i","k","i","n","g","\t">>
L_MOLA == <<"M","O","L","A">>
L_Mola_Elevation == <<"M","o","l","a"," ","E","l","e","v","a","t","i","o","n">>
L_CTX == <<"C","T","X">>
L_ctx_padded == <<" ","c","t","x"," ">>
L_vi_king == <<"v","i"," ","k","i","n","g">>
L_padded == <<" ","V","I","I","R","S"," ">>
V_2_0_0 == <<"2",".","0",".","0">>
ST_shaded == <<"s","h","a","d","e","d">>
TMS_alt == <<"d","e","f","a","u","l","t","0","1","4","m","m">>
D_today == <<"2","0","2","5","-","1","0","-","0","4">>
D_tomorrow == <<"2","0","2","5","-","1","0","-","0","5">>
D_next_month == <<"2","0","2","5","-","1","1","-","0","1">>
D_next_year == <<"2","0","2","6","-","0","1","-","0","1">>
D_leap == <<"2","0","2","4","-","0","2","-","2","9">>
D_not_leap == <<"2","0","2","5","-","0","2","-","2","9">>
D_month13 == <<"2","0","2","5","-","1","3","-","0","1">>
D_day00 == <<"2","0","2","5","-","1","0","-","0","0">>
D_year0 == <<"0","0","0","0","-","0","1","-","0","1">>
D_short == <<"2","0","2","5","-","1","0","-","4">>
D_slashes == <<"2","0","2","5","/","1","0","/","0","3">>
D_word == <<"y","e","s","t","e","r","d","a","y">>

-----------------------------------------------------------------------------
(* config.py / mars_service.py / mercury_service.py: numeric constants *)

EARTH_MAX_ZOOM == 9
EARTH_CACHE_MAX_AGE == 86400
MOON_MAX_ZOOM == 10
MOON_CACHE_MAX_AGE == 2592000
MIN_ZOOM == 0
MARS_MAX_ZOOM_DEFAULT == 7
MARS_CACHE_MAX_AGE == 2592000
MERCURY_MAX_ZOOM == 7
MERCURY_CACHE_MAX_AGE == 2592000

\* config.CONTENT_TYPE_MAP.get(format, "image/jpeg")
CONTENT_TYPE_MAP(format) ==
    IF format \in {S_jpg, S_jpeg} THEN "image/jpeg"
    ELSE IF format \in {S_png, S_png8} THEN "image/png"
    ELSE IF format \in {S_tif, S_tiff} THEN "image/tiff"
    ELSE "image/jpeg"

\* mars_service.SUPPORTED_LAYERS: the keys, and .get(key) (NoLayer for None)
NoLayer == <<>>
SUPPORTED_LAYERS_KEYS ==
    {K_viking_id, K_viking, K_viking_color_mosaic, K_mars_viking,
     K_mola_id, K_mola, K_mola_elevation, K_mars_mgs_mola}
SUPPORTED_LAYERS(key) ==
    IF key \in {K_viking_id, K_viking, K_viking_color_mosaic, K_mars_viking}
    THEN VIKING_ID
    ELSE IF key \in {K_mola_id, K_mola, K_mola_elevation, K_mars_mgs_mola}
    THEN MOLA_ID
    ELSE NoLayer

\* mars_service.LAYER_METADATA[id]: the fields the error payload is read for
LAYER_METADATA(id) ==
    IF id = VIKING_ID
    THEN [id |-> VIKING_ID, name |-> "Viking Color Mosaic",
          resolution |-> "232 meters/pixel",
          aliases |-> <<"viking", "Viking Color Mosaic", "Mars_Viking">>]
    ELSE [id |-> MOLA_ID, name |-> "MOLA Elevation",
          resolution |-> "463 meters/pixel",
          aliases |-> <<"mola", "MOLA Elevation", "Mars_MGS_MOLA">>]

-----------------------------------------------------------------------------
(* Requests and responses *)

NoReq == [body |-> "none"]
NoResp == [status |-> 0]
NoHeaders == [k \in {} |-> ""]
NoDetail == [k \in {} |-> ""]
NoDate == <<>>
NoNow == [y |-> 0, m |-> 0, d |-> 0, s |-> 0]
NoResponse == [kind |-> "none", status |-> 0, content |-> "", content_type |-> ""]

\* HTTPException whose response is marked cacheable
HTTPException_Cacheable(status_code, detail) ==
    [status |-> status_code, detail |-> detail, media_type |-> "application/json",
     headers |-> [k \in {"Cache-Control"} |-> S_public_max_age \o NatToStr(86400)],
     content |-> <<>>]

\* fastapi.HTTPException(status_code, detail), rendered as a JSON error body
HTTPException(status_code, detail) ==
    [status |-> status_code, detail |-> detail, media_type |-> "application/json",
     headers |-> NoHeaders, content |-> <<>>]

\* FastAPI's answer when Query(...) constraints fail: 422 listing every
\* offending parameter; the handler body does not run
RequestValidationError(params) ==
    [status |-> 422,
     detail |-> [loc |-> params, msg |-> "validation error", type |-> "value_error"],
     media_type |-> "application/json", headers |-> NoHeaders, content |-> <<>>]

\* fastapi.Response(content, media_type, headers)
Response(content, media_type, headers) ==
    [status |-> 200, detail |-> NoDetail, media_type |-> media_type,
     headers |-> headers, content |-> content]

\* the "error" field of an error payload ("" when the payload has none)
ErrorOf(r) == IF "error" \in DOMAIN r.detail THEN r.detail.error ELSE ""

\* outcome of the part of a handler that runs before the upstream GET
Reject(r) == [kind |-> "reject", resp |-> r, url |-> <<>>]
Fetch(url) == [kind |-> "fetch", resp |-> NoResp, url |-> url]

-----------------------------------------------------------------------------
(* Inputs *)

ZoomInputs == -1 .. MaxZoomInput
\* columns and rows around the edges of both matrix shapes at zoom z
\* and, at zoom 4, an inner tile (row 7, column 9)
ColInputs(z) ==
    {-1, 0, Pow2(z) - 1, Pow2(z), Pow2(z + 1) - 1, Pow2(z + 1)}
        \cup (IF z = 4 THEN {9} ELSE {})
RowInputs(z) == {-1, 0, Pow2(z) - 1, Pow2(z)} \cup (IF z = 4 THEN {7} ELSE {})

\* version, style and tile matrix set: the defaults, or all three supplied
TrekPathInputs(version, style, tms) ==
    {<<version, style, tms>>, <<V_2_0_0, ST_shaded, TMS_alt>>}
EarthTmsInputs == {EARTH_DEFAULT_TMS, TMS_alt}

EarthLayerInputs == {EARTH_DEFAULT_LAYER, L_padded, L_CTX}
EarthFormatInputs == {S_jpg, S_png8, S_tif, S_JPG}
DateInputs ==
    {EARTH_DEFAULT_DATE, D_today, D_tomorrow, D_next_month, D_next_year, D_leap,
     D_not_leap, D_month13, D_day00, D_year0, D_short, D_slashes, D_word}
\* values datetime.utcnow() returns: 2025-10-04 at 00:00:00 and at 23:59:59
NowInputs == {[y |-> 2025, m |-> 10, d |-> 4, s |-> 0],
              [y |-> 2025, m |-> 10, d |-> 4, s |-> 86399]}

MoonLayerInputs == {MOON_DEFAULT_LAYER, L_padded, L_CTX}
MoonFormatInputs == {S_jpg, S_jpeg, S_tiff, S_gif}

MarsLayerInputs ==
    {MARS_DEFAULT_LAYER, K_viking, L_VIKING, L_Viking_padded, L_MOLA, K_mola,
     L_Mola_Elevation, upper(MOLA_ID), L_CTX, L_ctx_padded, L_vi_king, <<>>}
MarsFormatInputs == {S_jpg, S_png, S_tif, S_gif}

MercuryLayerInputs == {MERCURY_DEFAULT_LAYER, L_padded, L_CTX}
MercuryFormatInputs == {S_jpg, S_JPG, S_Jpg, S_png, S_invalid}

\* /proxy/earth/tile: any integers, any strings, required parameters left out
ProxyZoomInputs == {-1, 0, MaxZoomInput + 1}
ProxyTileInputs == {-1, 0, 5}
ProxyDateInputs == {EARTH_DEFAULT_DATE, D_word}
ProxyFormatInputs == {S_jpg, S_gif}
ProxyMissingInputs == {{}, {"date"}, {"layer", "z"}}

\* what the upstream service may do with the single GET
UpstreamStatuses == {200, 204, 302, 400, 404, 500}
UpstreamBodies == {"bytes1", "bytes2"}
UpstreamContentTypes == {"image/png", "text/html"}
UpstreamOutcomes ==
    [kind : {"response"}, status : UpstreamStatuses, content : UpstreamBodies,
     content_type : UpstreamContentTypes]
    \cup {[kind |-> "timeout", status |-> 0, content |-> "", content_type |-> ""],
          [kind |-> "connect_error", status |-> 0, content |-> "",
           content_type |-> ""]}

-----------------------------------------------------------------------------
(* gibs_service.py: GET /earth/tile *)

\* regex=r"^\d{4}-\d{2}-\d{2}$" of the date parameter
DateRegexMatches(s) ==
    /\ Len(s) = 10
    /\ \A i \in {1, 2, 3, 4, 6, 7, 9, 10} : IsDigit(s[i])
    /\ s[5] = "-"
    /\ s[8] = "-"

\* the Query(...) constraints of get_earth_tile: the parameters that violate them
EarthQueryErrors(r) ==
    {p \in {"date", "z", "y", "x", "format"} :
        \/ p = "date" /\ ~DateRegexMatches(r.date)
        \/ p = "z" /\ (r.z < 0 \/ r.z > EARTH_MAX_ZOOM)
        \/ p = "y" /\ r.y < 0
        \/ p = "x" /\ r.x < 0
        \/ p = "format" /\ r.format \notin {S_jpg, S_jpeg, S_png, S_png8}}

\* calendar of datetime
IsLeap(y) == (y % 4 = 0 /\ y % 100 # 0) \/ y % 400 = 0
DaysInMonth(y, m) ==
    IF m \in {4, 6, 9, 11} THEN 30
    ELSE IF m = 2 THEN (IF IsLeap(y) THEN 29 ELSE 28)
    ELSE 31

\* the fields of s between the "-" separators
RECURSIVE SplitDash(_)
SplitDash(s) ==
    IF \A i \in 1..Len(s) : s[i] # "-" THEN <<s>>
    ELSE LET k == CHOOSE i \in 1..Len(s) :
                      s[i] = "-" /\ \A j \in 1..(i - 1) : s[j] # "-"
         IN <<SubSeq(s, 1, k - 1)>> \o SplitDash(SubSeq(s, k + 1, Len(s)))

AllDigits(f) == \A i \in 1..Len(f) : IsDigit(f[i])

\* datetime.strptime(s, "%Y-%m-%d"): ok = FALSE stands for ValueError.
\* %Y takes four digits, %m and %d one or two; the date must exist.
strptime(s) ==
    LET f == SplitDash(s)
        bad == [ok |-> FALSE, y |-> 0, m |-> 0, d |-> 0]
    IN IF Len(f) # 3 THEN bad
       ELSE IF ~(AllDigits(f[1]) /\ AllDigits(f[2]) /\ AllDigits(f[3])) THEN bad
       ELSE IF Len(f[1]) # 4 \/ Len(f[2]) \notin {1, 2} \/ Len(f[3]) \notin {1, 2} THEN bad
       ELSE LET y == DigitsToNat(f[1])
                m == DigitsToNat(f[2])
                d == DigitsToNat(f[3])
            IN IF y < 1 \/ m < 1 \/ m > 12 \/ d < 1 THEN bad
               ELSE IF d > DaysInMonth(y, m) THEN bad
               ELSE [ok |-> TRUE, y |-> y, m |-> m, d |-> d]

\* parsed_date > datetime.utcnow(): parsed_date is midnight of its day
InTheFuture(p, now) ==
    \/ p.y > now.y
    \/ p.y = now.y /\ p.m > now.m
    \/ p.y = now.y /\ p.m = now.m /\ p.d > now.d
    \/ p.y = now.y /\ p.m = now.m /\ p.d = now.d /\ 0 > now.s

\* STEP 1 of get_earth_tile: NoResp when the date passes
earth_validate_date(r) ==
    LET parsed_date == strptime(r.date)
    IN IF ~parsed_date.ok
       THEN HTTPException(400, [error |-> "Invalid date format",
                                message |-> "Date must be in YYYY-MM-DD format",
                                provided |-> r.date])
       ELSE IF InTheFuture(parsed_date, r.now)
       THEN HTTPException(400, [error |-> "Invalid date",
                                message |-> "Date cannot be in the future",
                                provided |-> r.date])
       ELSE NoResp

\* STEP 2 of get_earth_tile: NoResp when the tile is inside the matrix
earth_validate_coordinates(z, x, y) ==
    LET max_tiles == Pow2(z)
    IN IF x >= max_tiles \/ y >= max_tiles \/ x < 0 \/ y < 0
       THEN HTTPException(400, [error |-> "Tile coordinates out of bounds",
                                message |-> "tile indices must be 0 to max_tiles - 1",
                                provided |-> [x |-> x, y |-> y, z |-> z],
                                valid_range |-> <<0, max_tiles - 1>>])
       ELSE NoResp

\* earth_tile_url that writes the column before the row
earth_tile_url_ColumnFirst(r) ==
    GIBS_BASE_URL \o S_slash \o r.layer \o S_slash \o S_default \o S_slash \o r.date
    \o S_slash \o r.tile_matrix_set \o S_slash \o IntToStr(r.z) \o S_slash
    \o IntToStr(r.x) \o S_slash \o IntToStr(r.y) \o S_dot \o r.format

\* STEP 3 of get_earth_tile: the f-string of the upstream URL
earth_tile_url(r) ==
    GIBS_BASE_URL \o S_slash \o r.layer \o S_slash \o S_default \o S_slash \o r.date
    \o S_slash \o r.tile_matrix_set \o S_slash \o IntToStr(r.z) \o S_slash
    \o IntToStr(r.y) \o S_slash \o IntToStr(r.x) \o S_dot \o r.format

\* get_earth_tile up to the upstream GET
get_earth_tile(r) ==
    IF earth_validate_date(r) # NoResp THEN Reject(earth_validate_date(r))
    ELSE IF earth_validate_coordinates(r.z, r.x, r.y) # NoResp
    THEN Reject(earth_validate_coordinates(r.z, r.x, r.y))
    ELSE Fetch(earth_tile_url(r))

\* earth_respond without the 404 branch: raise_for_status handles the 404
earth_respond_NoNotFoundBranch(r, url, o) ==
    IF o.kind = "response" /\ ~(o.status \in 200..299)
    THEN HTTPException(o.status, [error |-> "GIBS service error",
                                  message |-> "NASA GIBS returned HTTP status",
                                  requested_url |-> url])
    ELSE IF o.kind = "response"
    THEN Response(o.content, CONTENT_TYPE_MAP(r.format),
                  [k \in {"Cache-Control", "X-Tile-Source", "X-Tile-Layer",
                          "X-Tile-Date", "X-Zoom-Level"} |->
                      CASE k = "Cache-Control" -> S_public_max_age \o NatToStr(EARTH_CACHE_MAX_AGE)
                        [] k = "X-Tile-Source" -> "NASA-GIBS"
                        [] k = "X-Tile-Layer" -> r.layer
                        [] k = "X-Tile-Date" -> r.date
                        [] k = "X-Zoom-Level" -> IntToStr(r.z)])
    ELSE HTTPException(502, [error |-> "Network error",
                             message |-> "Failed to connect to NASA GIBS",
                             requested_url |-> url])

\* get_earth_tile after the upstream GET: the response for outcome o
earth_respond(r, url, o) ==
    IF o.kind = "response" /\ o.status = 404
    THEN HTTPException(404, [error |-> "Tile not found",
                             message |-> "The requested tile does not exist.",
                             requested_url |-> url,
                             parameters |-> [layer |-> r.layer, date |-> r.date,
                                             z |-> r.z, y |-> r.y, x |-> r.x,
                                             format |-> r.format]])
    ELSE IF o.kind = "response" /\ ~(o.status \in 200..299)
    THEN HTTPException(o.status, [error |-> "GIBS service error",
                                  message |-> "NASA GIBS returned HTTP status",
                                  requested_url |-> url])
    ELSE IF o.kind = "response"
    THEN Response(o.content, CONTENT_TYPE_MAP(r.format),
                  [k \in {"Cache-Control", "X-Tile-Source", "X-Tile-Layer",
                          "X-Tile-Date", "X-Zoom-Level"} |->
                      CASE k = "Cache-Control" -> S_public_max_age \o NatToStr(EARTH_CACHE_MAX_AGE)
                        [] k = "X-Tile-Source" -> "NASA-GIBS"
                        [] k = "X-Tile-Layer" -> r.layer
                        [] k = "X-Tile-Date" -> r.date
                        [] k = "X-Zoom-Level" -> IntToStr(r.z)])
    ELSE HTTPException(502, [error |-> "Network error",
                             message |-> "Failed to connect to NASA GIBS",
                             requested_url |-> url])

-----------------------------------------------------------------------------
(* moon_service.py: GET /moon/tile *)

\* the Query(...) constraints of get_moon_tile: the parameters that violate them
MoonQueryErrors(r) ==
    {p \in {"z", "y", "x", "format"} :
        \/ p = "z" /\ (r.z < 0 \/ r.z > MOON_MAX_ZOOM)
        \/ p = "y" /\ r.y < 0
        \/ p = "x" /\ r.x < 0
        \/ p = "format" /\ r.format \notin {S_jpg, S_jpeg, S_png, S_tif, S_tiff}}

\* moon_validate_coordinates that forgets to bound the row
moon_validate_coordinates_NoRowBound(z, x, y) ==
    LET max_tiles == Pow2(z)
    IN IF x >= max_tiles \/ x < 0 \/ y < 0
       THEN HTTPException(400, [error |-> "Tile coordinates out of bounds",
                                message |-> "tile indices must be 0 to max_tiles - 1",
                                provided |-> [x |-> x, y |-> y, z |-> z],
                                valid_range |-> <<0, max_tiles - 1>>])
       ELSE NoResp

\* STEP 1 of get_moon_tile: NoResp when the tile is inside the matrix
moon_validate_coordinates(z, x, y) ==
    LET max_tiles == Pow2(z)
    IN IF x >= max_tiles \/ y >= max_tiles \/ x < 0 \/ y < 0
       THEN HTTPException(400, [error |-> "Tile coordinates out of bounds",
                                message |-> "tile indices must be 0 to max_tiles - 1",
                                provided |-> [x |-> x, y |-> y, z |-> z],
                                valid_range |-> <<0, max_tiles - 1>>])
       ELSE NoResp

\* trek_tile_url that trims the layer before placing it in the URL
trek_tile_url_Trimmed(base, layer, r) ==
    base \o S_slash \o strip(layer) \o S_slash \o r.version \o S_slash \o r.style
    \o S_slash \o r.tile_matrix_set \o S_slash \o IntToStr(r.z) \o S_slash
    \o IntToStr(r.y) \o S_slash \o IntToStr(r.x) \o S_dot \o r.format

\* the f-string of the upstream URL shared by the three Trek handlers
trek_tile_url(base, layer, r) ==
    base \o S_slash \o layer \o S_slash \o r.version \o S_slash \o r.style \o S_slash
    \o r.tile_matrix_set \o S_slash \o IntToStr(r.z) \o S_slash \o IntToStr(r.y)
    \o S_slash \o IntToStr(r.x) \o S_dot \o r.format

\* STEP 2 of get_moon_tile
moon_tile_url(r) == trek_tile_url(TREK_MOON_BASE_URL, r.layer, r)

\* get_moon_tile up to the upstream GET
get_moon_tile(r) ==
    IF moon_validate_coordinates(r.z, r.x, r.y) # NoResp
    THEN Reject(moon_validate_coordinates(r.z, r.x, r.y))
    ELSE Fetch(moon_tile_url(r))

\* moon_respond without the HTTPStatusError clause: the HTTPError clause
\* catches the status error
moon_respond_StatusAsNetworkError(r, url, o) ==
    IF o.kind = "response" /\ o.status = 404
    THEN HTTPException(404, [error |-> "Tile not found",
                             message |-> "The requested tile does not exist.",
                             requested_url |-> url,
                             parameters |-> [layer |-> r.layer, z |-> r.z, y |-> r.y,
                                             x |-> r.x, format |-> r.format]])
    ELSE IF o.kind = "response" /\ o.status \in 200..299
    THEN Response(o.content, CONTENT_TYPE_MAP(r.format),
                  [k \in {"Cache-Control", "X-Tile-Source", "X-Tile-Layer",
                          "X-Zoom-Level"} |->
                      CASE k = "Cache-Control" -> S_public_max_age \o NatToStr(MOON_CACHE_MAX_AGE)
                        [] k = "X-Tile-Source" -> "NASA-Trek-Moon"
                        [] k = "X-Tile-Layer" -> r.layer
                        [] k = "X-Zoom-Level" -> IntToStr(r.z)])
    ELSE HTTPException(502, [error |-> "Network error",
                             message |-> "Failed to connect to NASA Trek",
                             requested_url |-> url])

\* get_moon_tile after the upstream GET
moon_respond(r, url, o) ==
    IF o.kind = "response" /\ o.status = 404
    THEN HTTPException(404, [error |-> "Tile not found",
                             message |-> "The requested tile does not exist.",
                             requested_url |-> url,
                             parameters |-> [layer |-> r.layer, z |-> r.z, y |-> r.y,
                                             x |-> r.x, format |-> r.format]])
    ELSE IF o.kind = "response" /\ ~(o.status \in 200..299)
    THEN HTTPException(o.status, [error |-> "Trek service error",
                                  message |-> "NASA Trek returned HTTP status",
                                  requested_url |-> url])
    ELSE IF o.kind = "response"
    THEN Response(o.content, CONTENT_TYPE_MAP(r.format),
                  [k \in {"Cache-Control", "X-Tile-Source", "X-Tile-Layer",
                          "X-Zoom-Level"} |->
                      CASE k = "Cache-Control" -> S_public_max_age \o NatToStr(MOON_CACHE_MAX_AGE)
                        [] k = "X-Tile-Source" -> "NASA-Trek-Moon"
                        [] k = "X-Tile-Layer" -> r.layer
                        [] k = "X-Zoom-Level" -> IntToStr(r.z)])
    ELSE HTTPException(502, [error |-> "Network error",
                             message |-> "Failed to connect to NASA Trek",
                             requested_url |-> url])

-----------------------------------------------------------------------------
(* mars_service.py: GET /mars/tile *)

\* the Query(...) constraints of get_mars_tile: the parameters that violate them
MarsQueryErrors(r) ==
    {p \in {"z", "y", "x", "format"} :
        \/ p = "z" /\ r.z < MIN_ZOOM
        \/ p = "y" /\ r.y < 0
        \/ p = "x" /\ r.x < 0
        \/ p = "format" /\ r.format \notin {S_jpg, S_jpeg, S_png, S_tif, S_tiff}}

\* validate_zoom_level with an off-by-one ceiling
validate_zoom_level_OffByOne(z, max_zoom) ==
    IF z < MIN_ZOOM \/ z > max_zoom + 1
    THEN HTTPException(400, [error |-> "invalid_zoom",
                             message |-> "z must be between MIN_ZOOM and MAX_ZOOM",
                             maxZoom |-> max_zoom, minZoom |-> MIN_ZOOM,
                             provided |-> z])
    ELSE NoResp

\* validate_zoom_level(z): NoResp when it returns normally
validate_zoom_level(z, max_zoom) ==
    IF z < MIN_ZOOM \/ z > max_zoom
    THEN HTTPException(400, [error |-> "invalid_zoom",
                             message |-> "z must be between MIN_ZOOM and MAX_ZOOM",
                             maxZoom |-> max_zoom, minZoom |-> MIN_ZOOM,
                             provided |-> z])
    ELSE NoResp

\* normalize_layer that looks the trimmed name up without lower-casing it
normalize_layer_CaseSensitive(layer) ==
    LET normalized == strip(layer)
        canonical_id == SUPPORTED_LAYERS(normalized)
    IN IF canonical_id = NoLayer
       THEN [ok |-> FALSE, canonical_id |-> NoLayer,
             error |-> HTTPException(422,
                 [error |-> "unsupported_layer",
                  message |-> "Only Viking Color Mosaic and MOLA Elevation are supported.",
                  provided |-> layer,
                  supported |-> <<LAYER_METADATA(VIKING_ID), LAYER_METADATA(MOLA_ID)>>])]
       ELSE [ok |-> TRUE, canonical_id |-> canonical_id, error |-> NoResp]

\* normalize_layer that falls back to the default layer on an unknown name
normalize_layer_FallbackDefault(layer) ==
    LET normalized == lower(strip(layer))
        canonical_id == SUPPORTED_LAYERS(normalized)
    IN IF canonical_id = NoLayer
       THEN [ok |-> TRUE, canonical_id |-> MARS_DEFAULT_LAYER, error |-> NoResp]
       ELSE [ok |-> TRUE, canonical_id |-> canonical_id, error |-> NoResp]

\* normalize_layer(layer): ok with the canonical id, or the 422 it raises
normalize_layer(layer) ==
    LET normalized == lower(strip(layer))
        canonical_id == SUPPORTED_LAYERS(normalized)
    IN IF canonical_id = NoLayer
       THEN [ok |-> FALSE, canonical_id |-> NoLayer,
             error |-> HTTPException(422,
                 [error |-> "unsupported_layer",
                  message |-> "Only Viking Color Mosaic and MOLA Elevation are supported.",
                  provided |-> layer,
                  supported |-> <<LAYER_METADATA(VIKING_ID), LAYER_METADATA(MOLA_ID)>>])]
       ELSE [ok |-> TRUE, canonical_id |-> canonical_id, error |-> NoResp]

\* validate_tile_coordinates with an off-by-one bound (x > max_tiles)
validate_tile_coordinates_OffByOne(z, x, y) ==
    LET max_tiles == Pow2(z)
    IN IF x > max_tiles \/ y >= max_tiles \/ x < 0 \/ y < 0
       THEN HTTPException(400, [error |-> "coordinates_out_of_bounds",
                                message |-> "tile indices must be 0 to max_tiles - 1",
                                provided |-> [x |-> x, y |-> y, z |-> z],
                                valid_range |-> [min |-> 0, max |-> max_tiles - 1,
                                                 tiles_per_dimension |-> max_tiles],
                                celestial_body |-> "Mars"])
       ELSE NoResp

\* validate_tile_coordinates(z, x, y): NoResp when it returns normally
validate_tile_coordinates(z, x, y) ==
    LET max_tiles == Pow2(z)
    IN IF x >= max_tiles \/ y >= max_tiles \/ x < 0 \/ y < 0
       THEN HTTPException(400, [error |-> "coordinates_out_of_bounds",
                                message |-> "tile indices must be 0 to max_tiles - 1",
                                provided |-> [x |-> x, y |-> y, z |-> z],
                                valid_range |-> [min |-> 0, max |-> max_tiles - 1,
                                                 tiles_per_dimension |-> max_tiles],
                                celestial_body |-> "Mars"])
       ELSE NoResp

\* STEP 2 of get_mars_tile
mars_tile_url(canonical_layer, r) ==
    trek_tile_url(TREK_MARS_BASE_URL, canonical_layer, r)

\* get_mars_tile that builds the URL from the caller's layer, not the canonical id
get_mars_tile_RawLayer(r, max_zoom) ==
    IF validate_zoom_level(r.z, max_zoom) # NoResp
    THEN Reject(validate_zoom_level(r.z, max_zoom))
    ELSE IF ~normalize_layer(r.layer).ok
    THEN Reject(normalize_layer(r.layer).error)
    ELSE IF validate_tile_coordinates(r.z, r.x, r.y) # NoResp
    THEN Reject(validate_tile_coordinates(r.z, r.x, r.y))
    ELSE Fetch(mars_tile_url(r.layer, r))

\* get_mars_tile with the coordinate check ahead of the layer resolution
get_mars_tile_CoordsBeforeLayer(r, max_zoom) ==
    IF validate_zoom_level(r.z, max_zoom) # NoResp
    THEN Reject(validate_zoom_level(r.z, max_zoom))
    ELSE IF validate_tile_coordinates(r.z, r.x, r.y) # NoResp
    THEN Reject(validate_tile_coordinates(r.z, r.x, r.y))
    ELSE IF ~normalize_layer(r.layer).ok
    THEN Reject(normalize_layer(r.layer).error)
    ELSE Fetch(mars_tile_url(normalize_layer(r.layer).canonical_id, r))

\* get_mars_tile up to the upstream GET (max_zoom is the module's MAX_ZOOM)
get_mars_tile(r, max_zoom) ==
    IF validate_zoom_level(r.z, max_zoom) # NoResp
    THEN Reject(validate_zoom_level(r.z, max_zoom))
    ELSE IF ~normalize_layer(r.layer).ok
    THEN Reject(normalize_layer(r.layer).error)
    ELSE IF validate_tile_coordinates(r.z, r.x, r.y) # NoResp
    THEN Reject(validate_tile_coordinates(r.z, r.x, r.y))
    ELSE Fetch(mars_tile_url(normalize_layer(r.layer).canonical_id, r))

\* mars_respond that forwards the upstream response's own content type
mars_respond_UpstreamContentType(r, url, o, max_zoom) ==
    LET canonical_layer == normalize_layer(r.layer).canonical_id
    IN IF o.kind = "response" /\ o.status = 404
       THEN HTTPException(404, [error |-> "tile_not_found",
                                message |-> "The requested Mars tile does not exist.",
                                requested_url |-> url,
                                parameters |-> [layer |-> canonical_layer, z |-> r.z,
                                                y |-> r.y, x |-> r.x,
                                                format |-> r.format],
                                celestial_body |-> "Mars"])
       ELSE IF o.kind = "response" /\ ~(o.status \in 200..299)
       THEN HTTPException(o.status, [error |-> "trek_service_error",
                                     message |-> "NASA Trek returned HTTP status",
                                     requested_url |-> url,
                                     celestial_body |-> "Mars"])
       ELSE IF o.kind = "response"
       THEN Response(o.content, o.content_type,
                     [k \in {"Cache-Control", "X-Tile-Source", "X-Tile-Layer",
                             "X-Celestial-Body", "X-Zoom-Level", "X-Max-Zoom"} |->
                         CASE k = "Cache-Control" -> S_public_max_age \o NatToStr(MARS_CACHE_MAX_AGE)
                           [] k = "X-Tile-Source" -> "NASA-Trek-Mars"
                           [] k = "X-Tile-Layer" -> canonical_layer
                           [] k = "X-Celestial-Body" -> "Mars"
                           [] k = "X-Zoom-Level" -> IntToStr(r.z)
                           [] k = "X-Max-Zoom" -> IntToStr(max_zoom)])
       ELSE HTTPException(502, [error |-> "network_error",
                                message |-> "Failed to connect to NASA Trek",
                                requested_url |-> url,
                                celestial_body |-> "Mars"])

\* get_mars_tile after the upstream GET
mars_respond(r, url, o, max_zoom) ==
    LET canonical_layer == normalize_layer(r.layer).canonical_id
    IN IF o.kind = "response" /\ o.status = 404
       THEN HTTPException(404, [error |-> "tile_not_found",
                                message |-> "The requested Mars tile does not exist.",
                                requested_url |-> url,
                                parameters |-> [layer |-> canonical_layer, z |-> r.z,
                                                y |-> r.y, x |-> r.x,
                                                format |-> r.format],
                                celestial_body |-> "Mars"])
       ELSE IF o.kind = "response" /\ ~(o.status \in 200..299)
       THEN HTTPException(o.status, [error |-> "trek_service_error",
                                     message |-> "NASA Trek returned HTTP status",
                                     requested_url |-> url,
                                     celestial_body |-> "Mars"])
       ELSE IF o.kind = "response"
       THEN Response(o.content, CONTENT_TYPE_MAP(r.format),
                     [k \in {"Cache-Control", "X-Tile-Source", "X-Tile-Layer",
                             "X-Celestial-Body", "X-Zoom-Level", "X-Max-Zoom"} |->
                         CASE k = "Cache-Control" -> S_public_max_age \o NatToStr(MARS_CACHE_MAX_AGE)
                           [] k = "X-Tile-Source" -> "NASA-Trek-Mars"
                           [] k = "X-Tile-Layer" -> canonical_layer
                           [] k = "X-Celestial-Body" -> "Mars"
                           [] k = "X-Zoom-Level" -> IntToStr(r.z)
                           [] k = "X-Max-Zoom" -> IntToStr(max_zoom)])
       ELSE HTTPException(502, [error |-> "network_error",
                                message |-> "Failed to connect to NASA Trek",
                                requested_url |-> url,
                                celestial_body |-> "Mars"])

-----------------------------------------------------------------------------
(* mercury_service.py: GET /mercury/tile *)

\* the Query(...) constraints of get_mercury_tile without ge=0 on z
MercuryQueryErrors_NoZoomFloor(r) ==
    {p \in {"x", "y"} :
        \/ p = "x" /\ r.x < 0
        \/ p = "y" /\ r.y < 0}

\* the Query(...) constraints of get_mercury_tile: the parameters that violate them
MercuryQueryErrors(r) ==
    {p \in {"z", "x", "y"} :
        \/ p = "z" /\ r.z < 0
        \/ p = "x" /\ r.x < 0
        \/ p = "y" /\ r.y < 0}

\* mercury_validate_format whose payload has neither message nor the input
mercury_validate_format_NoEcho(format) ==
    IF lower(format) # S_jpg
    THEN HTTPException(406, [error |-> "Unsupported format",
                             supported_formats |-> <<S_jpg>>])
    ELSE NoResp

\* mercury_validate_format that lets png through as well
mercury_validate_format_AcceptsPng(format) ==
    IF lower(format) \notin {S_jpg, S_png}
    THEN HTTPException(406, [error |-> "Unsupported format",
                             message |-> "Only 'jpg' format is supported.",
                             supported_formats |-> <<S_jpg>>,
                             provided |-> format])
    ELSE NoResp

\* 1. VALIDATE FORMAT (406)
mercury_validate_format(format) ==
    IF lower(format) # S_jpg
    THEN HTTPException(406, [error |-> "Unsupported format",
                             message |-> "Only 'jpg' format is supported.",
                             supported_formats |-> <<S_jpg>>,
                             provided |-> format])
    ELSE NoResp

\* 2. VALIDATE ZOOM LEVEL (400)
mercury_validate_zoom(z) ==
    IF z < 0 \/ z > MERCURY_MAX_ZOOM
    THEN HTTPException(400, [error |-> "Zoom level out of range",
                             message |-> "Zoom level must be between 0 and MAX_ZOOM",
                             provided |-> z,
                             valid_range |-> <<0, MERCURY_MAX_ZOOM>>])
    ELSE NoResp

\* 3. VALIDATE TILE COORDINATES (400): the matrix is 2:1
\* max_tile_col for a square matrix, as the other bodies have
max_tile_col_Square(z) == Pow2(z)
max_tile_col(z) == Pow2(z + 1)
max_tile_row(z) == Pow2(z)

mercury_validate_x(z, x) ==
    IF x < 0 \/ x >= max_tile_col(z)
    THEN HTTPException(400, [error |-> "X coordinate out of bounds",
                             message |-> "x must be between 0 and max_tile_col - 1",
                             provided |-> x,
                             valid_range |-> <<0, max_tile_col(z) - 1>>,
                             zoom_level |-> z,
                             tile_matrix |-> NatToStr(max_tile_col(z)) \o S_times
                                            \o NatToStr(max_tile_row(z))])
    ELSE NoResp

mercury_validate_y(z, y) ==
    IF y < 0 \/ y >= max_tile_row(z)
    THEN HTTPException(400, [error |-> "Y coordinate out of bounds",
                             message |-> "y must be between 0 and max_tile_row - 1",
                             provided |-> y,
                             valid_range |-> <<0, max_tile_row(z) - 1>>,
                             zoom_level |-> z,
                             tile_matrix |-> NatToStr(max_tile_col(z)) \o S_times
                                            \o NatToStr(max_tile_row(z))])
    ELSE NoResp

\* mercury_tile_url that writes the lower-cased format as the extension
mercury_tile_url_LowerFormat(r) ==
    trek_tile_url(TREK_MERCURY_BASE_URL, r.layer, [r EXCEPT !.format = lower(r.format)])

\* 4. CONSTRUCT WMTS URL
mercury_tile_url(r) == trek_tile_url(TREK_MERCURY_BASE_URL, r.layer, r)

\* get_mercury_tile with the coordinate checks ahead of the zoom check
get_mercury_tile_CoordsFirst(r) ==
    IF mercury_validate_format(r.format) # NoResp
    THEN Reject(mercury_validate_format(r.format))
    ELSE IF mercury_validate_x(r.z, r.x) # NoResp
    THEN Reject(mercury_validate_x(r.z, r.x))
    ELSE IF mercury_validate_y(r.z, r.y) # NoResp
    THEN Reject(mercury_validate_y(r.z, r.y))
    ELSE IF mercury_validate_zoom(r.z) # NoResp
    THEN Reject(mercury_validate_zoom(r.z))
    ELSE Fetch(mercury_tile_url(r))

\* get_mercury_tile with the row check ahead of the column check
get_mercury_tile_RowFirst(r) ==
    IF mercury_validate_format(r.format) # NoResp
    THEN Reject(mercury_validate_format(r.format))
    ELSE IF mercury_validate_zoom(r.z) # NoResp
    THEN Reject(mercury_validate_zoom(r.z))
    ELSE IF mercury_validate_y(r.z, r.y) # NoResp
    THEN Reject(mercury_validate_y(r.z, r.y))
    ELSE IF mercury_validate_x(r.z, r.x) # NoResp
    THEN Reject(mercury_validate_x(r.z, r.x))
    ELSE Fetch(mercury_tile_url(r))

\* get_mercury_tile up to the upstream GET
get_mercury_tile(r) ==
    IF mercury_validate_format(r.format) # NoResp
    THEN Reject(mercury_validate_format(r.format))
    ELSE IF mercury_validate_zoom(r.z) # NoResp
    THEN Reject(mercury_validate_zoom(r.z))
    ELSE IF mercury_validate_x(r.z, r.x) # NoResp
    THEN Reject(mercury_validate_x(r.z, r.x))
    ELSE IF mercury_validate_y(r.z, r.y) # NoResp
    THEN Reject(mercury_validate_y(r.z, r.y))
    ELSE Fetch(mercury_tile_url(r))

\* mercury_respond without the TimeoutException clause: the RequestError
\* clause catches the timeout
mercury_respond_NoTimeoutClause(r, url, o) ==
    IF o.kind \in {"timeout", "connect_error"}
    THEN HTTPException(502, [error |-> "Network error",
                             message |-> "Failed to connect to NASA Trek",
                             requested_url |-> url])
    ELSE IF o.status = 404
    THEN HTTPException(404, [error |-> "Tile not found",
                             message |-> "The requested Mercury tile does not exist.",
                             requested_url |-> url,
                             parameters |-> [layer |-> r.layer, version |-> r.version,
                                             z |-> r.z, y |-> r.y, x |-> r.x,
                                             style |-> r.style,
                                             TileMatrixSet |-> r.tile_matrix_set,
                                             format |-> r.format]])
    ELSE IF o.status # 200
    THEN HTTPException(502, [error |-> "Upstream service error",
                             message |-> "NASA Trek returned status code",
                             requested_url |-> url,
                             status_code |-> o.status])
    ELSE Response(o.content, CONTENT_TYPE_MAP(r.format),
                  [k \in {"Cache-Control", "X-Tile-Source", "X-Tile-Layer",
                          "X-Tile-Coordinates", "X-Tile-Format", "X-Tile-Matrix"} |->
                      CASE k = "Cache-Control" -> S_public_max_age \o NatToStr(MERCURY_CACHE_MAX_AGE)
                        [] k = "X-Tile-Source" -> "NASA Trek Mercury WMTS"
                        [] k = "X-Tile-Layer" -> r.layer
                        [] k = "X-Tile-Coordinates" -> <<r.z, r.y, r.x>>
                        [] k = "X-Tile-Format" -> r.format
                        [] k = "X-Tile-Matrix" ->
                               NatToStr(max_tile_col(r.z)) \o S_times
                               \o NatToStr(max_tile_row(r.z))])

\* mercury_respond that answers with the upstream's own status, as the other
\* handlers do
mercury_respond_StatusPassedThrough(r, url, o) ==
    IF o.kind = "timeout"
    THEN HTTPException(502, [error |-> "Request timeout",
                             message |-> "Request to NASA Trek timed out",
                             requested_url |-> url])
    ELSE IF o.kind = "connect_error"
    THEN HTTPException(502, [error |-> "Network error",
                             message |-> "Failed to connect to NASA Trek",
                             requested_url |-> url])
    ELSE IF o.status = 404
    THEN HTTPException(404, [error |-> "Tile not found",
                             message |-> "The requested Mercury tile does not exist.",
                             requested_url |-> url,
                             parameters |-> [layer |-> r.layer, version |-> r.version,
                                             z |-> r.z, y |-> r.y, x |-> r.x,
                                             style |-> r.style,
                                             TileMatrixSet |-> r.tile_matrix_set,
                                             format |-> r.format]])
    ELSE IF o.status # 200
    THEN HTTPException(o.status, [error |-> "Upstream service error",
                             message |-> "NASA Trek returned status code",
                             requested_url |-> url,
                             status_code |-> o.status])
    ELSE Response(o.content, CONTENT_TYPE_MAP(r.format),
                  [k \in {"Cache-Control", "X-Tile-Source", "X-Tile-Layer",
                          "X-Tile-Coordinates", "X-Tile-Format", "X-Tile-Matrix"} |->
                      CASE k = "Cache-Control" -> S_public_max_age \o NatToStr(MERCURY_CACHE_MAX_AGE)
                        [] k = "X-Tile-Source" -> "NASA Trek Mercury WMTS"
                        [] k = "X-Tile-Layer" -> r.layer
                        [] k = "X-Tile-Coordinates" -> <<r.z, r.y, r.x>>
                        [] k = "X-Tile-Format" -> r.format
                        [] k = "X-Tile-Matrix" ->
                               NatToStr(max_tile_col(r.z)) \o S_times
                               \o NatToStr(max_tile_row(r.z))])

\* get_mercury_tile after the upstream GET
mercury_respond(r, url, o) ==
    IF o.kind = "timeout"
    THEN HTTPException(502, [error |-> "Request timeout",
                             message |-> "Request to NASA Trek timed out",
                             requested_url |-> url])
    ELSE IF o.kind = "connect_error"
    THEN HTTPException(502, [error |-> "Network error",
                             message |-> "Failed to connect to NASA Trek",
                             requested_url |-> url])
    ELSE IF o.status = 404
    THEN HTTPException(404, [error |-> "Tile not found",
                             message |-> "The requested Mercury tile does not exist.",
                             requested_url |-> url,
                             parameters |-> [layer |-> r.layer, version |-> r.version,
                                             z |-> r.z, y |-> r.y, x |-> r.x,
                                             style |-> r.style,
                                             TileMatrixSet |-> r.tile_matrix_set,
                                             format |-> r.format]])
    ELSE IF o.status # 200
    THEN HTTPException(502, [error |-> "Upstream service error",
                             message |-> "NASA Trek returned status code",
                             requested_url |-> url,
                             status_code |-> o.status])
    ELSE Response(o.content, CONTENT_TYPE_MAP(r.format),
                  [k \in {"Cache-Control", "X-Tile-Source", "X-Tile-Layer",
                          "X-Tile-Coordinates", "X-Tile-Format", "X-Tile-Matrix"} |->
                      CASE k = "Cache-Control" -> S_public_max_age \o NatToStr(MERCURY_CACHE_MAX_AGE)
                        [] k = "X-Tile-Source" -> "NASA Trek Mercury WMTS"
                        [] k = "X-Tile-Layer" -> r.layer
                        [] k = "X-Tile-Coordinates" -> <<r.z, r.y, r.x>>
                        [] k = "X-Tile-Format" -> r.format
                        [] k = "X-Tile-Matrix" ->
                               NatToStr(max_tile_col(r.z)) \o S_times
                               \o NatToStr(max_tile_row(r.z))])

-----------------------------------------------------------------------------
(* main.py: GET /proxy/earth/tile *)

\* the parameters of proxy_earth_tile carry no constraints: only a required
\* parameter that is absent fails the validation
ProxyQueryErrors(r) == r.missing

\* the f-string of proxy_earth_tile
proxy_tile_url(r) ==
    GIBS_BASE_URL \o S_slash \o r.layer \o S_slash \o S_default \o S_slash \o r.date
    \o S_slash \o EARTH_DEFAULT_TMS \o S_slash \o IntToStr(r.z) \o S_slash
    \o IntToStr(r.y) \o S_slash \o IntToStr(r.x) \o S_dot \o r.format

\* proxy_earth_tile that checks the row and column as get_earth_tile does
proxy_earth_tile_ValidatesCoordinates(r) ==
    IF earth_validate_coordinates(r.z, r.x, r.y) # NoResp
    THEN Reject(earth_validate_coordinates(r.z, r.x, r.y))
    ELSE Fetch(proxy_tile_url(r))

\* proxy_earth_tile up to the upstream GET: nothing is validated
proxy_earth_tile(r) == Fetch(proxy_tile_url(r))

\* proxy_earth_tile after the upstream GET. raise_for_status() raises for
\* every non-2xx status, 404 included, and the one except clause answers
\* every httpx.HTTPError with 502 and a detail that is a bare string
\* (written [bare_string |-> ...]: not an object with fields).
proxy_respond(r, url, o) ==
    IF o.kind = "response" /\ o.status \in 200..299
    THEN Response(o.content, S_image_slash \o r.format,
                  [k \in {"Cache-Control", "Access-Control-Allow-Origin"} |->
                      CASE k = "Cache-Control" -> S_public_max_age \o NatToStr(86400)
                        [] k = "Access-Control-Allow-Origin" -> "*"])
    ELSE HTTPException(502, [bare_string |-> "Upstream error"])

-----------------------------------------------------------------------------
(* The request life cycle *)

\* the slots of the requests in flight, and a slot without a request
Slots == 1..MaxInFlight
IdleHandler ==
    [pc |-> "idle", req |-> NoReq, tile_url |-> <<>>, gets |-> <<>>,
     response |-> NoResponse, resp |-> NoResp]

TypeOK ==
    /\ pc \in {"idle", "fetching", "done"}
    /\ MAX_ZOOM \in Int
    /\ Len(gets) <= 1

Init ==
    /\ MAX_ZOOM = MARS_MAX_ZOOM_DEFAULT
    /\ pc = "idle"
    /\ req = NoReq
    /\ tile_url = <<>>
    /\ gets = <<>>
    /\ response = NoResponse
    /\ resp = NoResp
    /\ handlers = [s \in Slots |-> IdleHandler]

\* Receive that already answers the client when it issues the upstream GET
Receive_AnswersBeforeReply(r, query_errors, outcome) ==
    /\ req' = r
    /\ UNCHANGED <<MAX_ZOOM, response, handlers>>
    /\ IF query_errors # {}
       THEN /\ resp' = RequestValidationError(query_errors)
            /\ pc' = "done"
            /\ UNCHANGED <<tile_url, gets>>
       ELSE IF outcome.kind = "reject"
       THEN /\ resp' = outcome.resp
            /\ pc' = "done"
            /\ UNCHANGED <<tile_url, gets>>
       ELSE /\ tile_url' = outcome.url
            /\ gets' = Append(gets, outcome.url)
            /\ pc' = "fetching"
            /\ resp' = Response(<<>>, "image/jpeg", NoHeaders)

\* The framework validates the query parameters (422 on failure, handler not
\* run); the handler then runs up to its first await: it either raises an
\* HTTPException or issues the upstream GET and suspends.
Receive(r, query_errors, outcome) ==
    /\ req' = r
    /\ UNCHANGED <<MAX_ZOOM, response, handlers>>
    /\ IF query_errors # {}
       THEN /\ resp' = RequestValidationError(query_errors)
            /\ pc' = "done"
            /\ UNCHANGED <<tile_url, gets>>
       ELSE IF outcome.kind = "reject"
       THEN /\ resp' = outcome.resp
            /\ pc' = "done"
            /\ UNCHANGED <<tile_url, gets>>
       ELSE /\ tile_url' = outcome.url
            /\ gets' = Append(gets, outcome.url)
            /\ pc' = "fetching"
            /\ UNCHANGED resp

EarthRequest(z, y, x, layer, date, tms, format, now) ==
    [body |-> "earth", z |-> z, y |-> y, x |-> x, layer |-> layer,
     version |-> <<>>, style |-> <<>>, tile_matrix_set |-> tms, format |-> format,
     date |-> date, now |-> now]

TrekRequest(body, z, y, x, layer, version, style, tms, format) ==
    [body |-> body, z |-> z, y |-> y, x |-> x, layer |-> layer,
     version |-> version, style |-> style, tile_matrix_set |-> tms,
     format |-> format, date |-> NoDate, now |-> NoNow]

EarthTile ==
    /\ pc = "idle"
    /\ \E z \in ZoomInputs, layer \in EarthLayerInputs, date \in DateInputs,
          format \in EarthFormatInputs, now \in NowInputs, tms \in EarthTmsInputs :
         \E y \in RowInputs(z), x \in ColInputs(z) :
           LET r == EarthRequest(z, y, x, layer, date, tms, format, now)
           IN Receive(r, EarthQueryErrors(r), get_earth_tile(r))

MoonTile ==
    /\ pc = "idle"
    /\ \E z \in ZoomInputs, layer \in MoonLayerInputs, format \in MoonFormatInputs,
          p \in TrekPathInputs(MOON_DEFAULT_VERSION, MOON_DEFAULT_STYLE,
                               MOON_DEFAULT_TMS) :
         \E y \in RowInputs(z), x \in ColInputs(z) :
           LET r == TrekRequest("moon", z, y, x, layer, p[1], p[2], p[3], format)
           IN Receive(r, MoonQueryErrors(r), get_moon_tile(r))

MarsTile ==
    /\ pc = "idle"
    /\ \E z \in ZoomInputs, layer \in MarsLayerInputs, format \in MarsFormatInputs,
          p \in TrekPathInputs(MARS_DEFAULT_VERSION, MARS_DEFAULT_STYLE,
                               MARS_DEFAULT_TMS) :
         \E y \in RowInputs(z), x \in ColInputs(z) :
           LET r == TrekRequest("mars", z, y, x, layer, p[1], p[2], p[3], format)
           IN Receive(r, MarsQueryErrors(r), get_mars_tile(r, MAX_ZOOM))

MercuryTile ==
    /\ pc = "idle"
    /\ \E z \in ZoomInputs, layer \in MercuryLayerInputs, format \in MercuryFormatInputs,
          p \in TrekPathInputs(MERCURY_DEFAULT_VERSION, MERCURY_DEFAULT_STYLE,
                               MERCURY_DEFAULT_TMS) :
         \E y \in RowInputs(z), x \in ColInputs(z) :
           LET r == TrekRequest("mercury", z, y, x, layer, p[1], p[2], p[3], format)
           IN Receive(r, MercuryQueryErrors(r), get_mercury_tile(r))

ProxyRequest(z, y, x, layer, date, format, missing) ==
    [body |-> "proxy", z |-> z, y |-> y, x |-> x, layer |-> layer,
     version |-> <<>>, style |-> <<>>, tile_matrix_set |-> EARTH_DEFAULT_TMS,
     format |-> format, date |-> date, now |-> NoNow, missing |-> missing]

ProxyEarthTile ==
    /\ pc = "idle"
    /\ \E z \in ProxyZoomInputs, y \in ProxyTileInputs, x \in ProxyTileInputs,
          layer \in EarthLayerInputs, date \in ProxyDateInputs,
          format \in ProxyFormatInputs, missing \in ProxyMissingInputs :
         LET r == ProxyRequest(z, y, x, layer, date, format, missing)
         IN Receive(r, ProxyQueryErrors(r), proxy_earth_tile(r))

\* the response the suspended handler builds from the outcome of its GET
respond(r, url, o, max_zoom) ==
    CASE r.body = "earth" -> earth_respond(r, url, o)
      [] r.body = "moon" -> moon_respond(r, url, o)
      [] r.body = "mars" -> mars_respond(r, url, o, max_zoom)
      [] r.body = "mercury" -> mercury_respond(r, url, o)
      [] r.body = "proxy" -> proxy_respond(r, url, o)

\* UpstreamReply that issues the GET once more after a failed attempt
UpstreamReply_RetryOnFailure ==
    /\ pc = "fetching"
    /\ \E o \in UpstreamOutcomes :
         /\ response' = o
         /\ IF ~(o.kind = "response" /\ o.status \in 200..299) /\ Len(gets) < 2
            THEN /\ gets' = Append(gets, tile_url)
                 /\ pc' = "fetching"
                 /\ UNCHANGED resp
            ELSE /\ resp' = respond(req, tile_url, o, MAX_ZOOM)
                 /\ pc' = "done"
                 /\ UNCHANGED gets
    /\ UNCHANGED <<MAX_ZOOM, req, tile_url, handlers>>

\* await client.get(tile_url) completes (a response, a timeout or a
\* connection failure) and the handler runs to its end
UpstreamReply ==
    /\ pc = "fetching"
    /\ \E o \in UpstreamOutcomes :
         /\ response' = o
         /\ resp' = respond(req, tile_url, o, MAX_ZOOM)
    /\ pc' = "done"
    /\ UNCHANGED <<MAX_ZOOM, req, tile_url, gets, handlers>>

\* the response has been sent; the next request is independent of this one
Complete ==
    /\ pc = "done"
    /\ pc' = "idle"
    /\ req' = NoReq
    /\ tile_url' = <<>>
    /\ gets' = <<>>
    /\ response' = NoResponse
    /\ resp' = NoResp
    /\ UNCHANGED <<MAX_ZOOM, handlers>>

Next ==
    \/ EarthTile
    \/ MoonTile
    \/ MarsTile
    \/ MercuryTile
    \/ UpstreamReply
    \/ Complete

Spec == Init /\ [][Next]_vars

-----------------------------------------------------------------------------
(* mars_service.py at import: MAX_ZOOM = int(os.getenv("MARS_MAX_ZOOM", "7")) *)

\* the environment variable: not set, or set to a string
EnvUnset == [set |-> FALSE, value |-> <<>>]
EnvValue(s) == [set |-> TRUE, value |-> s]
MarsMaxZoomEnvInputs ==
    {EnvUnset, EnvValue(<<"7">>), EnvValue(<<"0">>), EnvValue(<<"-", "1">>),
     EnvValue(<<"1", "0">>), EnvValue(<<" ", "+", "3", "\n">>),
     EnvValue(<<"s", "e", "v", "e", "n">>), EnvValue(<<>>)}

\* os.getenv(name, default)
getenv(env, default) == IF env.set THEN env.value ELSE default

\* int(s) of a str: surrounding whitespace and one sign are allowed; ok is
\* FALSE when int raises ValueError
int(s) ==
    LET t == strip(s)
        signed == t # <<>> /\ t[1] \in {"-", "+"}
        digits == IF signed THEN Tail(t) ELSE t
    IN IF digits # <<>> /\ \A i \in 1..Len(digits) : IsDigit(digits[i])
       THEN [ok |-> TRUE,
             value |-> IF signed /\ t[1] = "-" THEN 0 - DigitsToNat(digits)
                       ELSE DigitsToNat(digits)]
       ELSE [ok |-> FALSE, value |-> 0]

\* the server starts only if the module imports, that is if int(...) returns
InitEnv ==
    /\ \E env \in MarsMaxZoomEnvInputs :
         /\ int(getenv(env, NatToStr(MARS_MAX_ZOOM_DEFAULT))).ok
         /\ MAX_ZOOM = int(getenv(env, NatToStr(MARS_MAX_ZOOM_DEFAULT))).value
    /\ pc = "idle"
    /\ req = NoReq
    /\ tile_url = <<>>
    /\ gets = <<>>
    /\ response = NoResponse
    /\ resp = NoResp
    /\ handlers = [s \in Slots |-> IdleHandler]

\* the Mars endpoint under every value of the override
NextEnv ==
    \/ MarsTile
    \/ UpstreamReply
    \/ Complete

SpecEnv == InitEnv /\ [][NextEnv]_vars

\* client.get runs under AsyncClient(timeout=...): the upstream answers, the
\* connection fails, or the timeout fires, so the suspended handler resumes
FairSpec == Spec /\ WF_vars(UpstreamReply)

\* the four tile endpoints together with /proxy/earth/tile
NextWithProxy ==
    \/ EarthTile
    \/ MoonTile
    \/ MarsTile
    \/ MercuryTile
    \/ ProxyEarthTile
    \/ UpstreamReply
    \/ Complete

SpecWithProxy == Init /\ [][NextWithProxy]_vars

-----------------------------------------------------------------------------
(* Several requests in flight: every handler is a coroutine of one event   *)
(* loop; it runs from the arrival of its request to `await client.get`,    *)
(* is suspended there, and runs to its end when the GET completes.         *)

\* the requests and upstream outcomes followed when several are in flight
ConcurrentRequests ==
    {EarthRequest(0, 0, 0, EARTH_DEFAULT_LAYER, EARTH_DEFAULT_DATE,
                  EARTH_DEFAULT_TMS, S_jpg, [y |-> 2025, m |-> 10, d |-> 4, s |-> 0]),
     EarthRequest(1, 1, 2, EARTH_DEFAULT_LAYER, D_month13,
                  EARTH_DEFAULT_TMS, S_png8, [y |-> 2025, m |-> 10, d |-> 4, s |-> 0]),
     TrekRequest("moon", 1, 1, 1, MOON_DEFAULT_LAYER, MOON_DEFAULT_VERSION,
                 MOON_DEFAULT_STYLE, MOON_DEFAULT_TMS, S_jpg),
     TrekRequest("mars", 3, 7, 7, L_VIKING, MARS_DEFAULT_VERSION,
                 MARS_DEFAULT_STYLE, MARS_DEFAULT_TMS, S_png),
     TrekRequest("mars", 5, 0, 31, MARS_DEFAULT_LAYER, MARS_DEFAULT_VERSION,
                 MARS_DEFAULT_STYLE, MARS_DEFAULT_TMS, S_jpg),
     TrekRequest("mars", 8, 0, 0, L_CTX, MARS_DEFAULT_VERSION,
                 MARS_DEFAULT_STYLE, MARS_DEFAULT_TMS, S_jpg),
     TrekRequest("mercury", 3, 7, 15, MERCURY_DEFAULT_LAYER, MERCURY_DEFAULT_VERSION,
                 MERCURY_DEFAULT_STYLE, MERCURY_DEFAULT_TMS, S_JPG),
     TrekRequest("mercury", 0, 0, -1, MERCURY_DEFAULT_LAYER, MERCURY_DEFAULT_VERSION,
                 MERCURY_DEFAULT_STYLE, MERCURY_DEFAULT_TMS, S_png)}
ConcurrentOutcomes ==
    {o \in UpstreamOutcomes :
        o.kind = "response" =>
            o.status \in {200, 404, 500} /\ o.content = "bytes1"
            /\ o.content_type = "image/png"}

\* the Query(...) constraints and the handler of the endpoint r is sent to
QueryErrors(r) ==
    CASE r.body = "earth" -> EarthQueryErrors(r)
      [] r.body = "moon" -> MoonQueryErrors(r)
      [] r.body = "mars" -> MarsQueryErrors(r)
      [] r.body = "mercury" -> MercuryQueryErrors(r)
handler(r, max_zoom) ==
    CASE r.body = "earth" -> get_earth_tile(r)
      [] r.body = "moon" -> get_moon_tile(r)
      [] r.body = "mars" -> get_mars_tile(r, max_zoom)
      [] r.body = "mercury" -> get_mercury_tile(r)

\* the coroutine after running to its first await (what Receive does to the
\* one request of Spec), and after being resumed with outcome o
Started(r, query_errors, outcome) ==
    IF query_errors # {}
    THEN [IdleHandler EXCEPT !.pc = "done", !.req = r,
                             !.resp = RequestValidationError(query_errors)]
    ELSE IF outcome.kind = "reject"
    THEN [IdleHandler EXCEPT !.pc = "done", !.req = r, !.resp = outcome.resp]
    ELSE [IdleHandler EXCEPT !.pc = "fetching", !.req = r,
                             !.tile_url = outcome.url, !.gets = <<outcome.url>>]
Resumed(h, o, max_zoom) ==
    [h EXCEPT !.pc = "done", !.response = o,
              !.resp = respond(h.req, h.tile_url, o, max_zoom)]

\* Arrive whose Mars handler stores the zoom it served in the module's MAX_ZOOM
Arrive_WritesMaxZoom(s) ==
    /\ handlers[s].pc = "idle"
    /\ \E r \in ConcurrentRequests :
         /\ handlers' = [handlers EXCEPT
                            ![s] = Started(r, QueryErrors(r), handler(r, MAX_ZOOM))]
         /\ MAX_ZOOM' = IF r.body = "mars" /\ r.z <= MAX_ZOOM THEN r.z ELSE MAX_ZOOM
    /\ UNCHANGED <<pc, req, tile_url, gets, response, resp>>

\* a request arrives while others are in flight: its handler reads the
\* module's constants and runs to its first await or to its end
Arrive(s) ==
    /\ handlers[s].pc = "idle"
    /\ \E r \in ConcurrentRequests :
         handlers' = [handlers EXCEPT
                         ![s] = Started(r, QueryErrors(r), handler(r, MAX_ZOOM))]
    /\ UNCHANGED <<MAX_ZOOM, pc, req, tile_url, gets, response, resp>>

\* the GET of the handler in slot s completes, on its own AsyncClient, and
\* the event loop resumes that handler
Resume(s) ==
    /\ handlers[s].pc = "fetching"
    /\ \E o \in ConcurrentOutcomes :
         handlers' = [handlers EXCEPT ![s] = Resumed(handlers[s], o, MAX_ZOOM)]
    /\ UNCHANGED <<MAX_ZOOM, pc, req, tile_url, gets, response, resp>>

\* the response of slot s has been sent
Finish(s) ==
    /\ handlers[s].pc = "done"
    /\ handlers' = [handlers EXCEPT ![s] = IdleHandler]
    /\ UNCHANGED <<MAX_ZOOM, pc, req, tile_url, gets, response, resp>>

NextConcurrent ==
    \/ \E s \in Slots : Arrive(s)
    \/ \E s \in Slots : Resume(s)
    \/ \E s \in Slots : Finish(s)

\* the upstream of slot 1 may never answer; the GETs of the other slots
\* complete (an answer, a connection failure or the timeout)
ConcurrentSpec ==
    Init /\ [][NextConcurrent]_vars /\ \A s \in Slots \ {1} : WF_vars(Resume(s))

-----------------------------------------------------------------------------
(* Vocabulary of the properties *)

Handled == pc \in {"fetching", "done"}
Rejected == pc = "done" /\ gets = <<>>
Bodies == {"earth", "moon", "mars", "mercury"}

\* zoom bounds and tile matrix shape (columns, rows) of each body
MinZoomOf(body) == 0
MaxZoomOf(body) ==
    CASE body = "earth" -> 9
      [] body = "moon" -> 10
      [] body = "mars" -> MAX_ZOOM
      [] body = "mercury" -> 7
MaxCols(body, z) == IF body = "mercury" THEN 2 ^ (z + 1) ELSE 2 ^ z
MaxRows(body, z) == 2 ^ z

ZoomInRange(r) == MinZoomOf(r.body) <= r.z /\ r.z <= MaxZoomOf(r.body)
InMatrix(r) ==
    /\ r.z >= 0
    /\ 0 <= r.y /\ r.y < MaxRows(r.body, r.z)
    /\ 0 <= r.x /\ r.x < MaxCols(r.body, r.z)
InBounds(r) == ZoomInRange(r) /\ InMatrix(r)

\* the inputs that are real calendar dates written YYYY-MM-DD, with their day
CalendarDates ==
    {<<EARTH_DEFAULT_DATE, 20251003>>, <<D_today, 20251004>>,
     <<D_tomorrow, 20251005>>, <<D_next_month, 20251101>>,
     <<D_next_year, 20260101>>, <<D_leap, 20240229>>}
DayOf(now) == now.y * 10000 + now.m * 100 + now.d
DateAcceptable(date, now) ==
    \E c \in CalendarDates : c[1] = date /\ c[2] <= DayOf(now)

\* the format and layer rules of each body, and the date rule of Earth
FormatValid(r) ==
    CASE r.body = "earth" -> r.format \in {S_jpg, S_jpeg, S_png, S_png8}
      [] r.body \in {"moon", "mars"} ->
             r.format \in {S_jpg, S_jpeg, S_png, S_tif, S_tiff}
      [] r.body = "mercury" -> lower(r.format) = S_jpg
LayerValid(r) ==
    r.body = "mars" => lower(strip(r.layer)) \in SUPPORTED_LAYERS_KEYS
DateValid(r) == r.body = "earth" => DateAcceptable(r.date, r.now)
OtherParamsValid(r) == FormatValid(r) /\ LayerValid(r) /\ DateValid(r)

\* kinds of error responses
ValidationError422(r) == r.status = 422 /\ "loc" \in DOMAIN r.detail
ZoomKinds == {"invalid_zoom", "Zoom level out of range"}
CoordKinds == {"Tile coordinates out of bounds", "coordinates_out_of_bounds",
               "X coordinate out of bounds", "Y coordinate out of bounds"}
ZoomError400(r) == r.status = 400 /\ ErrorOf(r) \in ZoomKinds
CoordError400(r) == r.status = 400 /\ ErrorOf(r) \in CoordKinds
ZoomError(r) == ZoomError400(r) \/ (ValidationError422(r) /\ "z" \in r.detail.loc)
CoordError(r) ==
    CoordError400(r) \/ (ValidationError422(r) /\ r.detail.loc \cap {"x", "y"} # {})

\* the path segments of a URL
RECURSIVE SplitOn(_, _)
SplitOn(s, c) ==
    IF \A i \in 1..Len(s) : s[i] # c THEN <<s>>
    ELSE LET k == CHOOSE i \in 1..Len(s) : s[i] = c /\ \A j \in 1..(i - 1) : s[j] # c
         IN <<SubSeq(s, 1, k - 1)>> \o SplitOn(SubSeq(s, k + 1, Len(s)), c)
Segments(url) == SplitOn(url, "/")
\* the decimal number a segment spells (-1 when it spells none)
NumberOf(seg) == IF seg # <<>> /\ AllDigits(seg) THEN DigitsToNat(seg) ELSE -1
UrlZoom(url) == NumberOf(Segments(url)[Len(Segments(url)) - 2])
UrlRow(url) == NumberOf(Segments(url)[Len(Segments(url)) - 1])
UrlCol(url) == NumberOf(SplitOn(Segments(url)[Len(Segments(url))], ".")[1])
\* the layer segment of an upstream URL: the first one after the base URL
UrlLayer(url) == Segments(url)[7]

\* the error kinds of the responses that follow the upstream GET
NotFoundKinds == {"Tile not found", "tile_not_found"}
UpstreamErrorKinds ==
    {"GIBS service error", "Trek service error", "trek_service_error",
     "Upstream service error"}
NetworkErrorKinds == {"Network error", "network_error"}
TimeoutKinds == {"Request timeout"}
InternalErrorKinds == {"Internal server error"}
\* the request ran to its end after the upstream GET came back
Answered == pc = "done" /\ gets # <<>>
Upstream2xx == response.kind = "response" /\ response.status \in 200..299

-----------------------------------------------------------------------------
(* C1 *)

\* C1: a request that fails any validation step (date, zoom, row/column,
\* layer, format) issues no upstream GET; every upstream GET that is issued
\* is for a request that passes them all, and the URL it fetches carries a
\* zoom within the body's [minZoom, maxZoom] and a row and column inside the
\* body's tile matrix for that zoom.
C1_NoFetchForInvalidInput ==
    /\ Handled /\ ~(InBounds(req) /\ OtherParamsValid(req)) => Rejected
    /\ \A i \in 1..Len(gets) :
         /\ InBounds(req) /\ OtherParamsValid(req)
         /\ MinZoomOf(req.body) <= UrlZoom(gets[i])
         /\ UrlZoom(gets[i]) <= MaxZoomOf(req.body)
         /\ 0 <= UrlRow(gets[i])
         /\ UrlRow(gets[i]) < MaxRows(req.body, UrlZoom(gets[i]))
         /\ 0 <= UrlCol(gets[i])
         /\ UrlCol(gets[i]) < MaxCols(req.body, UrlZoom(gets[i]))

\* a request with an out-of-matrix column has been rejected with 400 and no
\* GET was issued for it
C1_Witness ==
    /\ Rejected
    /\ resp.status = 400
    /\ ErrorOf(resp) = "coordinates_out_of_bounds"
    /\ req.body = "mars"
    /\ req.x = 2 ^ req.z

-----------------------------------------------------------------------------
(* C2 *)

\* C2: for every body and all z, row, col, the zoom and coordinate checks of
\* a tile request succeed if and only if minZoom <= z <= maxZoom and
\* 0 <= row < maxRows(z) and 0 <= col < maxCols(z): an in-bounds tile is never
\* rejected for its zoom or coordinates and is fetched when the rest of the
\* request is valid; an out-of-bounds tile is always rejected, and for its
\* zoom or coordinates when the rest of the request is valid.
C2_CoordinateValidationIff ==
    Handled =>
      /\ InBounds(req) => ~(ZoomError(resp) \/ CoordError(resp))
      /\ InBounds(req) /\ OtherParamsValid(req) => gets # <<>>
      /\ ~InBounds(req) => Rejected
      /\ ~InBounds(req) /\ OtherParamsValid(req) =>
             ZoomError(resp) \/ CoordError(resp)

\* a Moon tile whose row is the first one outside the matrix was rejected
C2_Witness ==
    /\ Rejected
    /\ req.body = "moon"
    /\ ZoomInRange(req)
    /\ req.y = 2 ^ req.z
    /\ req.x = 0
    /\ CoordError400(resp)

-----------------------------------------------------------------------------
(* C3 *)

\* C3: for every zoom within a body's bounds the matrix used for the bounds
\* check is 2^z columns by 2^z rows for Earth, Moon and Mars and 2^(z+1)
\* columns by 2^z rows for Mercury: a request whose other parameters are valid
\* and whose row and column are not negative is fetched exactly when the
\* column is below the column count and the row below the row count, and is
\* rejected with status 400 and the coordinates error otherwise. For Mercury
\* and z in 0..7, (x = 2^(z+1)-1, y = 2^z-1) passes, x = 2^(z+1) or y = 2^z
\* is rejected with 400, and the error reports the matrix 2^(z+1) x 2^z.
C3_TileMatrixShape ==
    Handled /\ ZoomInRange(req) /\ OtherParamsValid(req) /\ req.x >= 0 /\ req.y >= 0 =>
      LET cols == IF req.body = "mercury" THEN 2 ^ (req.z + 1) ELSE 2 ^ req.z
          rows == 2 ^ req.z
      IN /\ (gets # <<>>) <=> (req.x < cols /\ req.y < rows)
         /\ gets = <<>> => pc = "done" /\ CoordError400(resp)
         /\ req.body = "mercury" /\ req.x = 2 ^ (req.z + 1) - 1 /\ req.y = 2 ^ req.z - 1
              => gets # <<>>
         /\ req.body = "mercury" /\ (req.x = 2 ^ (req.z + 1) \/ req.y = 2 ^ req.z)
              => /\ resp.status = 400
                 /\ resp.detail.tile_matrix
                      = NatToStr(2 ^ (req.z + 1)) \o S_times \o NatToStr(2 ^ req.z)

\* the last tile of Mercury's 16 x 8 matrix at zoom 3 is being fetched
C3_Witness ==
    /\ pc = "fetching"
    /\ req.body = "mercury"
    /\ req.z = 3
    /\ req.x = 15
    /\ req.y = 7

-----------------------------------------------------------------------------
(* C4 *)

\* C4 as stated: for every body, a tile request whose zoom is below minZoom
\* or above maxZoom (the rest of the request being valid and the row and
\* column not negative) is rejected with status 400 and a zoom-specific
\* error kind.
C4_ZoomOutOfRangeIs400 ==
    Handled /\ ~ZoomInRange(req) /\ OtherParamsValid(req) /\ req.x >= 0 /\ req.y >= 0
      => pc = "done" /\ ZoomError400(resp)

\* C4 amended: an out-of-range zoom is always rejected before any fetch and
\* never reported as the coordinates-out-of-bounds error. A negative zoom for
\* any body, and a zoom above the ceiling for Earth and Moon, is rejected by
\* the parameter validation with status 422 naming z. A zoom above the
\* ceiling for Mars and Mercury is rejected with status 400 and the
\* zoom-specific error, provided the query constraints hold (row and column
\* not negative, Mars format allowed) and Mercury's format is supported.
C4_ZoomOutOfRangeRejected ==
    Handled /\ ~ZoomInRange(req) =>
      /\ Rejected
      /\ ~CoordError400(resp)
      /\ req.z < 0 \/ req.body \in {"earth", "moon"}
           => ValidationError422(resp) /\ "z" \in resp.detail.loc
      /\ req.z >= 0 /\ req.body \in {"mars", "mercury"}
           /\ req.x >= 0 /\ req.y >= 0 /\ FormatValid(req)
           => ZoomError400(resp) /\ resp.detail.provided = req.z

\* a Mars request one level above the ceiling was rejected with invalid_zoom
C4_Witness ==
    /\ Rejected
    /\ req.body = "mars"
    /\ req.z = MAX_ZOOM + 1
    /\ resp.status = 400
    /\ ErrorOf(resp) = "invalid_zoom"

-----------------------------------------------------------------------------
(* C5 *)

\* C5: for a Mercury tile request a negative zoom is rejected with status 422
\* by the parameter validation; a zoom greater than 7 is rejected with a JSON
\* error body, with status 400 and the zoom error when the request is
\* otherwise well formed (row and column not negative, format jpg); in both
\* cases no upstream fetch is made.
C5_MercuryZoomRejections ==
    Handled /\ req.body = "mercury" =>
      /\ req.z < 0 =>
           /\ Rejected
           /\ ValidationError422(resp)
           /\ "z" \in resp.detail.loc
           /\ resp.media_type = "application/json"
      /\ req.z > 7 =>
           /\ Rejected
           /\ resp.media_type = "application/json"
           /\ resp.status \in {400, 406, 422}
      /\ req.z > 7 /\ req.x >= 0 /\ req.y >= 0 /\ FormatValid(req) =>
           /\ resp.status = 400
           /\ ErrorOf(resp) = "Zoom level out of range"
           /\ resp.detail.provided = req.z

\* the request z=8, y=0, x=0 of the edge-case test was rejected with 400
C5_Witness ==
    /\ Rejected
    /\ req.body = "mercury"
    /\ req.z = 8
    /\ req.x = 0
    /\ req.y = 0
    /\ req.format = S_jpg
    /\ resp.status = 400

-----------------------------------------------------------------------------
(* C6 *)

\* C6 as stated: for every body, whenever a request (otherwise valid) has
\* both an out-of-range zoom and a row or column outside the matrix computed
\* for that zoom, the error reported is the zoom error (the 400 zoom error,
\* or the 422 of the parameter validation naming z) and never the
\* coordinates-out-of-bounds error.
C6_ZoomErrorReportedFirst ==
    Handled /\ OtherParamsValid(req) /\ ~ZoomInRange(req) /\ ~InMatrix(req)
      => pc = "done" /\ ZoomError(resp) /\ ~CoordError400(resp)

\* C6 amended: a request with an out-of-range zoom is never answered with
\* the handler's 400 coordinates-out-of-bounds error, whatever its row and
\* column; when its row and column are not negative (and the rest of the
\* request is valid) the error reported is the zoom error. A negative row or
\* column is rejected by the parameter validation, which runs before the
\* handler's zoom check: for Mars and Mercury a zoom above the ceiling
\* together with a negative row or column yields 422 naming only x or y.
C6_ZoomBeforeMatrixCheck ==
    Handled /\ ~ZoomInRange(req) /\ ~InMatrix(req) =>
      /\ Rejected
      /\ ~CoordError400(resp)
      /\ OtherParamsValid(req) /\ req.x >= 0 /\ req.y >= 0 => ZoomError(resp)
      /\ req.body \in {"mars", "mercury"} /\ req.z >= 0 /\ (req.x < 0 \/ req.y < 0)
           => /\ ValidationError422(resp)
              /\ "z" \notin resp.detail.loc
              /\ resp.detail.loc \subseteq {"x", "y", "format"}

\* Mercury, zoom 8 with the column just outside the 512 x 256 matrix of that
\* zoom: the zoom error was reported
C6_Witness ==
    /\ Rejected
    /\ req.body = "mercury"
    /\ req.z = 8
    /\ req.x = 2 ^ 9
    /\ ErrorOf(resp) = "Zoom level out of range"

-----------------------------------------------------------------------------
(* C7 *)

\* other spellings of a layer name: changed case, added surrounding whitespace
Recasings(s) ==
    {upper(s), lower(s), <<" ">> \o s \o <<"\t">>, <<"\n">> \o upper(s),
     lower(s) \o <<" ", " ">>}
\* what resolving a layer name yields: failure, or the canonical id
Resolution(s) == [ok |-> normalize_layer(s).ok, id |-> normalize_layer(s).canonical_id]

\* C7: Mars layer resolution is case-insensitive, ignores leading and
\* trailing whitespace and is idempotent: for the layer s of every Mars
\* request and every re-casing or padding s' of s, resolving s and s' either
\* both fail with unsupported_layer or both give the same canonical id c, and
\* c resolves to c; "VIKING" and "viking" resolve to
\* Mars_Viking_MDIM21_ClrMosaic_global_232m and "MOLA" to
\* Mars_MGS_MOLA_MEGR_global_463m. What the handler does agrees with the
\* resolution: once the query constraints and the zoom check pass, the
\* request is answered 422 unsupported_layer exactly when resolution fails, and
\* a URL that is fetched carries the canonical id.
C7_LayerResolutionCaseInsensitive ==
    Handled /\ req.body = "mars" =>
      LET res == normalize_layer(req.layer)
      IN /\ \A s2 \in Recasings(req.layer) : Resolution(s2) = Resolution(req.layer)
         /\ res.ok =>
              /\ res.canonical_id \in {VIKING_ID, MOLA_ID}
              /\ Resolution(res.canonical_id) = [ok |-> TRUE, id |-> res.canonical_id]
         /\ ~res.ok =>
              res.error.status = 422 /\ ErrorOf(res.error) = "unsupported_layer"
         /\ req.layer \in {L_VIKING, K_viking} =>
              Resolution(req.layer) = [ok |-> TRUE, id |-> VIKING_ID]
         /\ req.layer = L_MOLA => Resolution(req.layer) = [ok |-> TRUE, id |-> MOLA_ID]
         /\ req.x >= 0 /\ req.y >= 0 /\ FormatValid(req) /\ ZoomInRange(req) =>
              /\ ~res.ok <=>
                   (pc = "done" /\ resp.status = 422
                    /\ ErrorOf(resp) = "unsupported_layer")
              /\ \A i \in 1..Len(gets) : UrlLayer(gets[i]) = res.canonical_id

\* a Mars tile asked for as layer "VIKING" is being fetched under the
\* canonical Viking id
C7_Witness ==
    /\ pc = "fetching"
    /\ req.body = "mars"
    /\ req.layer = L_VIKING
    /\ UrlLayer(gets[1]) = VIKING_ID

-----------------------------------------------------------------------------
(* C8 *)

\* C8: for Mars, a layer whose trimmed lower-cased form is not a key of the
\* alias table (e.g. "CTX") is always rejected without an upstream fetch; when
\* the rest of the request is well formed (row and column not negative,
\* format allowed, zoom in range) the rejection has status 422 and error
\* unsupported_layer, echoes the provided value and lists exactly the two
\* supported layers, Viking Color Mosaic and MOLA Elevation, with their
\* metadata (name, resolution, aliases).
C8_UnsupportedLayerRejected ==
    Handled /\ req.body = "mars"
      /\ lower(strip(req.layer)) \notin SUPPORTED_LAYERS_KEYS =>
        /\ Rejected
        /\ req.x >= 0 /\ req.y >= 0 /\ FormatValid(req) /\ ZoomInRange(req) =>
             /\ resp.status = 422
             /\ ErrorOf(resp) = "unsupported_layer"
             /\ resp.detail.provided = req.layer
             /\ Len(resp.detail.supported) = 2
             /\ resp.detail.supported[1].id = VIKING_ID
             /\ resp.detail.supported[1].name = "Viking Color Mosaic"
             /\ resp.detail.supported[2].id = MOLA_ID
             /\ resp.detail.supported[2].name = "MOLA Elevation"
             /\ \A i \in 1..2 :
                  {"name", "resolution", "aliases"}
                      \subseteq DOMAIN resp.detail.supported[i]

\* layer CTX was rejected with 422 unsupported_layer
C8_Witness ==
    /\ Rejected
    /\ req.body = "mars"
    /\ req.layer = L_CTX
    /\ resp.status = 422
    /\ ErrorOf(resp) = "unsupported_layer"
    /\ resp.detail.provided = L_CTX

-----------------------------------------------------------------------------
(* C9 *)

\* C9 as stated: for Earth, Moon and Mercury every layer string is accepted
\* without a validation error, and the layer placed in the upstream URL is
\* the caller's input with leading and trailing whitespace trimmed.
C9_LayerTrimmedInUrl ==
    Handled /\ req.body \in {"earth", "moon", "mercury"} =>
      /\ ~(ValidationError422(resp) /\ "layer" \in resp.detail.loc)
      /\ ~(resp.status = 422 /\ ErrorOf(resp) = "unsupported_layer")
      /\ \A i \in 1..Len(gets) : UrlLayer(gets[i]) = strip(req.layer)

\* C9 amended: for Earth, Moon and Mercury every layer string is accepted
\* without a validation error (a request whose other parameters are valid is
\* fetched whatever its layer), and the layer placed in the upstream URL is
\* the caller's input exactly as given: leading and trailing whitespace is
\* not trimmed.
C9_LayerPassedVerbatim ==
    Handled /\ req.body \in {"earth", "moon", "mercury"} =>
      /\ ~(ValidationError422(resp) /\ "layer" \in resp.detail.loc)
      /\ ~(resp.status = 422 /\ ErrorOf(resp) = "unsupported_layer")
      /\ InBounds(req) /\ FormatValid(req) /\ DateValid(req) => gets # <<>>
      /\ \A i \in 1..Len(gets) : UrlLayer(gets[i]) = req.layer

\* a Moon tile asked for with layer " VIIRS " is being fetched with the
\* blanks still in the URL
C9_Witness ==
    /\ pc = "fetching"
    /\ req.body = "moon"
    /\ req.layer = L_padded
    /\ UrlLayer(gets[1]) = L_padded
    /\ UrlLayer(gets[1]) # strip(req.layer)

-----------------------------------------------------------------------------
(* C10 *)

\* C10: for an Earth tile request (format, zoom, row and column valid) the
\* date is accepted if and only if it is a real calendar date written
\* YYYY-MM-DD on or before the current UTC calendar date (today accepted at
\* any time of day, tomorrow rejected); every other date string, malformed,
\* not a real date or in the future, is rejected with status 400 and an
\* invalid-date error.
C10_DateAcceptedIffNotFuture ==
    Handled /\ req.body = "earth" /\ FormatValid(req) /\ InBounds(req) =>
      /\ DateAcceptable(req.date, req.now) => gets # <<>>
      /\ ~DateAcceptable(req.date, req.now) =>
           /\ Rejected
           /\ resp.status = 400
           /\ ErrorOf(resp) \in {"Invalid date", "Invalid date format"}

\* the date 2025-10-4 was rejected by the parameter validation with 422, not
\* by the handler's date check
C10_Witness ==
    /\ Rejected
    /\ req.body = "earth"
    /\ req.date = D_short
    /\ FormatValid(req)
    /\ InBounds(req)
    /\ ValidationError422(resp)
    /\ resp.detail.loc = {"date"}

-----------------------------------------------------------------------------
(* C11 *)

\* the base URL of each body's upstream service
BaseOf(body) ==
    CASE body = "earth" -> GIBS_BASE_URL
      [] body = "moon" -> TREK_MOON_BASE_URL
      [] body = "mars" -> TREK_MARS_BASE_URL
      [] body = "mercury" -> TREK_MERCURY_BASE_URL
\* the layer after resolution: the canonical id for Mars, the input otherwise
ResolvedLayer(r) ==
    IF r.body = "mars" THEN SUPPORTED_LAYERS(lower(strip(r.layer))) ELSE r.layer
\* the four path segments between the base URL and the tile address
DialectSegments(r) ==
    IF r.body = "earth"
    THEN <<ResolvedLayer(r), <<"d","e","f","a","u","l","t">>, r.date, r.tile_matrix_set>>
    ELSE <<ResolvedLayer(r), r.version, r.style, r.tile_matrix_set>>
\* the segments of a sequence joined by "/"
RECURSIVE JoinSlash(_)
JoinSlash(segs) ==
    IF Len(segs) = 0 THEN <<>>
    ELSE IF Len(segs) = 1 THEN segs[1]
    ELSE segs[1] \o <<"/">> \o JoinSlash(Tail(segs))

\* C11: URL building is a deterministic function of the resolved parameters.
\* Every URL fetched for an Earth request is exactly
\* {GIBS base}/{layer}/default/{date}/{tileMatrixSet}/{z}/{y}/{x}.{format},
\* with the literal segment "default" in the style position, and every URL
\* fetched for a Moon, Mars or Mercury request is exactly
\* {Trek base}/{layer}/{version}/{style}/{tileMatrixSet}/{z}/{y}/{x}.{format};
\* in both dialects the row y precedes the column x. The URL is the join of
\* segments that depend on the resolved parameters only, so identical
\* resolved parameters give identical URLs.
C11_UrlIsFunctionOfParameters ==
    \A i \in 1..Len(gets) :
      LET seg == Segments(gets[i])
          n == Len(Segments(BaseOf(req.body)))
      IN /\ Len(seg) = n + 7
         /\ SubSeq(seg, 1, n) = Segments(BaseOf(req.body))
         /\ SubSeq(seg, n + 1, n + 4) = DialectSegments(req)
         /\ req.body = "earth" => seg[n + 2] = <<"d","e","f","a","u","l","t">>
         /\ NumberOf(seg[n + 5]) = req.z
         /\ NumberOf(seg[n + 6]) = req.y
         /\ NumberOf(SplitOn(seg[n + 7], ".")[1]) = req.x
         /\ SplitOn(seg[n + 7], ".") = <<SplitOn(seg[n + 7], ".")[1], req.format>>
         /\ gets[i] = JoinSlash(seg)
         /\ gets[i] = tile_url

\* an Earth tile with a caller-supplied tile matrix set and a column that
\* differs from its row is being fetched
C11_Witness ==
    /\ pc = "fetching"
    /\ req.body = "earth"
    /\ req.tile_matrix_set = TMS_alt
    /\ req.z = 2
    /\ req.y = 0
    /\ req.x = 3
    /\ Len(gets) = 1

-----------------------------------------------------------------------------
(* C12 *)

\* C12: for Mars, every upstream URL that is fetched, and the layer reported
\* in the success headers and in the 404 payload, uses the canonical layer id
\* obtained by alias resolution and never the caller's raw alias: the layer
\* segment of a fetched Mars URL is always
\* Mars_Viking_MDIM21_ClrMosaic_global_232m or Mars_MGS_MOLA_MEGR_global_463m
\* (layer=MOLA, z=4, y=7, x=9 fetches
\* .../Mars_MGS_MOLA_MEGR_global_463m/.../4/7/9.jpg).
C12_MarsUsesCanonicalLayer ==
    Handled /\ req.body = "mars" =>
      /\ \A i \in 1..Len(gets) :
           /\ UrlLayer(gets[i]) \in {VIKING_ID, MOLA_ID}
           /\ UrlLayer(gets[i]) = SUPPORTED_LAYERS(lower(strip(req.layer)))
           /\ req.layer \notin {VIKING_ID, MOLA_ID} => UrlLayer(gets[i]) # req.layer
      /\ pc = "done" /\ resp.status = 200 =>
           /\ resp.headers["X-Tile-Layer"] \in {VIKING_ID, MOLA_ID}
           /\ resp.headers["X-Tile-Layer"] = UrlLayer(gets[1])
      /\ pc = "done" /\ resp.status = 404 =>
           /\ resp.detail.parameters.layer \in {VIKING_ID, MOLA_ID}
           /\ resp.detail.parameters.layer = UrlLayer(gets[1])
      /\ req.layer = L_MOLA /\ req.z = 4 /\ req.y = 7 /\ req.x = 9
           /\ req.format = <<"j","p","g">> =>
           /\ gets # <<>>
           /\ SubSeq(Segments(gets[1]), 7, 13) =
                <<MOLA_ID, req.version, req.style, req.tile_matrix_set,
                  <<"4">>, <<"7">>, <<"9", ".", "j", "p", "g">>>>

\* the tile layer=MOLA, z=4, y=7, x=9 was fetched under the canonical MOLA id
\* and answered 200 with that id in the X-Tile-Layer header
C12_Witness ==
    /\ pc = "done"
    /\ req.body = "mars"
    /\ req.layer = L_MOLA
    /\ req.z = 4 /\ req.y = 7 /\ req.x = 9
    /\ resp.status = 200
    /\ resp.headers["X-Tile-Layer"] = MOLA_ID
    /\ UrlLayer(gets[1]) = MOLA_ID

-----------------------------------------------------------------------------
(* C13 *)

\* C13: for every body's tile endpoint, when the upstream GET returns HTTP
\* 404 the client receives status 404 with a tile-not-found error kind; the
\* 404 outcome is never reclassified as an upstream-error, network-error or
\* internal-error response by the surrounding exception handlers.
C13_Upstream404IsTileNotFound ==
    Answered /\ response.kind = "response" /\ response.status = 404 =>
      /\ resp.status = 404
      /\ ErrorOf(resp) \in NotFoundKinds
      /\ ErrorOf(resp) \notin
           UpstreamErrorKinds \cup NetworkErrorKinds \cup TimeoutKinds
               \cup InternalErrorKinds
      /\ resp.detail.requested_url = gets[1]

\* an Earth tile whose upstream GET returned 404 was answered 404
\* "Tile not found"
C13_Witness ==
    /\ Answered
    /\ req.body = "earth"
    /\ response.kind = "response"
    /\ response.status = 404
    /\ resp.status = 404
    /\ ErrorOf(resp) = "Tile not found"

-----------------------------------------------------------------------------
(* C14 *)

\* the Success outcome: status 200 whose body is the upstream bytes, unmodified
Success == resp.status = 200 /\ resp.content = response.content

\* C14: for every body, a validated request ends in the Success outcome
\* (client status 200 whose body is exactly the upstream response bytes) if
\* and only if the upstream GET returned a 2xx status; every upstream 2xx
\* status, not only 200, yields Success, and no non-2xx upstream status does.
C14_SuccessIffUpstream2xx ==
    Answered => (Success <=> Upstream2xx)

\* a Mercury tile whose upstream GET returned 204 was answered 502
\* "Upstream service error"
C14_Witness ==
    /\ Answered
    /\ req.body = "mercury"
    /\ response.kind = "response"
    /\ response.status = 204
    /\ resp.status = 502
    /\ ErrorOf(resp) = "Upstream service error"

-----------------------------------------------------------------------------
(* C15 *)

\* C15: for every body, an upstream response with a non-2xx status other
\* than 404 yields the upstream-error outcome, and the client-facing status
\* is that same upstream status code for Earth, Moon and Mars and 502 for
\* Mercury (whose payload carries the upstream code); it is never reported
\* as a network error, a timeout or a success.
C15_UpstreamErrorStatus ==
    Answered /\ response.kind = "response" /\ response.status \notin 200..299
      /\ response.status # 404 =>
        /\ ErrorOf(resp) \in UpstreamErrorKinds
        /\ ErrorOf(resp) \notin NetworkErrorKinds \cup TimeoutKinds
        /\ resp.status # 200
        /\ req.body \in {"earth", "moon", "mars"} => resp.status = response.status
        /\ req.body = "mercury" =>
             resp.status = 502 /\ resp.detail.status_code = response.status
        /\ resp.detail.requested_url = gets[1]

\* a Moon tile whose upstream GET returned 500 was answered 500
\* "Trek service error"
C15_Witness ==
    /\ Answered
    /\ req.body = "moon"
    /\ response.kind = "response"
    /\ response.status = 500
    /\ resp.status = 500
    /\ ErrorOf(resp) = "Trek service error"

-----------------------------------------------------------------------------
(* C16 *)

\* C16 as stated: for every body, an upstream timeout and an upstream
\* connection failure both yield client status 502 but with distinguishable
\* error kinds: a timeout is reported with a timeout kind and a connection
\* failure with a network-error kind, and neither with the other's kind.
C16_TimeoutDistinguishable ==
    Answered =>
      /\ response.kind = "timeout" =>
           /\ resp.status = 502
           /\ ErrorOf(resp) \in TimeoutKinds
           /\ ErrorOf(resp) \notin NetworkErrorKinds
      /\ response.kind = "connect_error" =>
           /\ resp.status = 502
           /\ ErrorOf(resp) \in NetworkErrorKinds
           /\ ErrorOf(resp) \notin TimeoutKinds

\* C16 amended: for every body, an upstream timeout and an upstream
\* connection failure both yield client status 502 with the requested URL in
\* the payload. Only Mercury distinguishes them ("Request timeout" for a
\* timeout, "Network error" for a connection failure); Earth, Moon and Mars
\* report both with the same network-error kind.
C16_TimeoutAndNetworkFailure502 ==
    Answered /\ response.kind \in {"timeout", "connect_error"} =>
      /\ resp.status = 502
      /\ resp.detail.requested_url = gets[1]
      /\ req.body = "mercury" /\ response.kind = "timeout" =>
           ErrorOf(resp) = "Request timeout"
      /\ req.body = "mercury" /\ response.kind = "connect_error" =>
           ErrorOf(resp) = "Network error"
      /\ req.body \in {"earth", "moon"} => ErrorOf(resp) = "Network error"
      /\ req.body = "mars" => ErrorOf(resp) = "network_error"

\* a Mars tile whose upstream GET timed out was answered 502 network_error
C16_Witness ==
    /\ Answered
    /\ req.body = "mars"
    /\ response.kind = "timeout"
    /\ resp.status = 502
    /\ ErrorOf(resp) = "network_error"

-----------------------------------------------------------------------------
(* C17 *)

\* C17: every tile request issues at most one upstream GET, and exactly one
\* when all validation passes; once the GET has been issued, whatever comes
\* back (a 404, another error status, a network error, a timeout, or a
\* success) the next step of the request is its terminal response, with no
\* second GET.
C17_SingleUpstreamGet ==
    /\ [](/\ Len(gets) <= 1
          /\ Handled /\ InBounds(req) /\ OtherParamsValid(req) => Len(gets) = 1
          /\ Handled /\ ~(InBounds(req) /\ OtherParamsValid(req)) => gets = <<>>)
    /\ [][pc = "fetching" =>
            /\ pc' = "done"
            /\ gets' = gets
            /\ resp'.status # 0
            /\ ~(response'.kind = "response" /\ response'.status \in 200..299)
                 => resp'.status \notin {0, 200}]_vars

\* a Mercury tile whose single GET timed out has its terminal 502 response
C17_Witness ==
    /\ pc = "done"
    /\ req.body = "mercury"
    /\ response.kind = "timeout"
    /\ Len(gets) = 1
    /\ resp.status = 502

-----------------------------------------------------------------------------
(* C18 *)

\* the static format -> MIME map, with its default
MimeOf(format) ==
    CASE format \in {<<"j","p","g">>, <<"j","p","e","g">>} -> "image/jpeg"
      [] format \in {<<"p","n","g">>, <<"p","n","g","8">>} -> "image/png"
      [] format \in {<<"t","i","f">>, <<"t","i","f","f">>} -> "image/tiff"
      [] OTHER -> "image/jpeg"

\* C18: on every success response the Content-Type is determined by the
\* requested format through the static map jpg/jpeg -> image/jpeg,
\* png/png8 -> image/png, tif/tiff -> image/tiff, with image/jpeg for any
\* format not in the map; it never depends on the upstream response's own
\* content type.
C18_ContentTypeFromFormat ==
    Answered /\ resp.status = 200 => resp.media_type = MimeOf(req.format)

\* a Mars tile asked for as tif was answered image/tiff although the
\* upstream response was typed text/html
C18_Witness ==
    /\ Answered
    /\ req.body = "mars"
    /\ req.format = S_tif
    /\ resp.status = 200
    /\ resp.media_type = "image/tiff"
    /\ response.content_type = "text/html"

-----------------------------------------------------------------------------
(* C19 *)

\* the Cache-Control value of a body's success responses
CacheControlOf(body) ==
    IF body = "earth"
    THEN <<"p","u","b","l","i","c",","," ","m","a","x","-","a","g","e","=","8","6","4","0","0">>
    ELSE <<"p","u","b","l","i","c",","," ","m","a","x","-","a","g","e","=","2","5","9","2","0","0","0">>

\* C19: every success response carries the header
\* Cache-Control: public, max-age=N with N = 86400 for Earth and
\* N = 2592000 for Moon, Mars and Mercury, and no error response (validation
\* failure, 404, upstream error, network error, timeout) carries that header.
C19_CacheControlOnSuccessOnly ==
    pc = "done" =>
      /\ resp.status = 200 =>
           /\ "Cache-Control" \in DOMAIN resp.headers
           /\ resp.headers["Cache-Control"] = CacheControlOf(req.body)
      /\ resp.status # 200 => "Cache-Control" \notin DOMAIN resp.headers

\* a Moon tile was answered 200 with Cache-Control: public, max-age=2592000
C19_Witness ==
    /\ pc = "done"
    /\ req.body = "moon"
    /\ resp.status = 200
    /\ resp.headers["Cache-Control"] = CacheControlOf("moon")

-----------------------------------------------------------------------------
(* C20 *)

\* a payload with an error kind and a message that echoes the offending
\* input or the request
EchoFields == {"provided", "requested_url", "parameters"}
StructuredError(r) ==
    /\ {"error", "message"} \subseteq DOMAIN r.detail
    /\ DOMAIN r.detail \cap EchoFields # {}
Failed == pc = "done" /\ resp.status # 200

-----------------------------------------------------------------------------
(* C21: Mercury rejects every format but jpg with 406 *)

-----------------------------------------------------------------------------
(* C22: what mercury_test_script.py expects of an unrecognised format *)

\* C22: a Mercury tile request with valid zoom and coordinates but a format
\* string that is not a recognised image format (format=invalid) is rejected
\* with status 422 and a JSON body.
C22_InvalidFormatIs422 ==
    /\ pc = "done"
    /\ req.body = "mercury"
    /\ req.format = S_invalid
    /\ ZoomInRange(req) /\ InMatrix(req)
    => /\ resp.status = 422
       /\ resp.media_type = "application/json"

\* z=3, y=4, x=8, format=invalid was answered 406, not 422
C22_Witness ==
    /\ Rejected
    /\ req.body = "mercury"
    /\ req.format = S_invalid
    /\ req.z = 3 /\ req.y = 7 /\ req.x = 15
    /\ resp.status = 406
    /\ resp.media_type = "application/json"

-----------------------------------------------------------------------------
(* C24: the order of the validation stages *)

DateKinds == {"Invalid date", "Invalid date format"}
LayerError(r) == r.status = 422 /\ ErrorOf(r) = "unsupported_layer"
DateError(r) == r.status = 400 /\ ErrorOf(r) \in DateKinds

\* C24 as stated: the stages run in the order zoom, row/column, layer
\* resolution, date, and the error reported is that of the earliest failing
\* stage: a Mars request with in-range zoom, a row or column outside the
\* matrix and an unsupported layer reports the coordinates error, and an Earth
\* request with a row or column outside the matrix and an invalid date
\* reports the coordinates error.
C24_ZoomCoordinatesLayerDate ==
    /\ Handled /\ req.body = "mars" /\ MarsQueryErrors(req) = {}
         /\ ZoomInRange(req) /\ ~InMatrix(req) /\ ~LayerValid(req)
         => Rejected /\ CoordError400(resp)
    /\ Handled /\ req.body = "earth" /\ EarthQueryErrors(req) = {}
         /\ ~InMatrix(req) /\ ~DateValid(req)
         => Rejected /\ CoordError400(resp)

\* C24 amended: the query constraints are checked first (422), then each
\* handler runs its own stages and reports the first that fails. Mars: zoom,
\* then layer resolution, then row/column, so a Mars request with in-range
\* zoom, a row or column outside the matrix and an unsupported layer reports
\* unsupported_layer, and the coordinates error is reported only when zoom
\* and layer both pass. Earth: date, then row/column, so an Earth request
\* whose date the handler rejects reports the date error whatever its row and
\* column, and the coordinates error is reported only when the date passes.
C24_HandlerStageOrder ==
    /\ Handled /\ req.body = "mars" /\ MarsQueryErrors(req) = {} =>
         /\ ~ZoomInRange(req) => Rejected /\ ZoomError400(resp)
         /\ ZoomInRange(req) /\ ~LayerValid(req) => Rejected /\ LayerError(resp)
         /\ ZoomInRange(req) /\ LayerValid(req) /\ ~InMatrix(req)
              => Rejected /\ CoordError400(resp)
         /\ Rejected /\ CoordError400(resp) => ZoomInRange(req) /\ LayerValid(req)
    /\ Handled /\ req.body = "earth" /\ EarthQueryErrors(req) = {} =>
         /\ earth_validate_date(req) # NoResp
              => Rejected /\ DateError(resp) /\ resp = earth_validate_date(req)
         /\ earth_validate_date(req) = NoResp /\ ~InMatrix(req)
              => Rejected /\ CoordError400(resp)
         /\ ~DateValid(req) /\ ~InMatrix(req) => Rejected /\ ~CoordError400(resp)

\* Mars, zoom 3, column 8 of an 8 x 8 matrix, layer CTX: unsupported_layer
\* was reported, not the coordinates error
C24_Witness ==
    /\ Rejected
    /\ req.body = "mars"
    /\ req.z = 3 /\ req.x = 8 /\ req.y = 0
    /\ req.layer = L_CTX
    /\ LayerError(resp)

-----------------------------------------------------------------------------
(* C25: one terminal outcome per request *)

\* the terminal outcomes a response belongs to
TerminalOutcomes(r) ==
    {o \in {"ValidationError", "Succeeded", "NotFound", "UpstreamError",
            "NetworkError", "Timeout"} :
        \/ o = "ValidationError" /\ gets = <<>> /\ r.status \in {400, 406, 422}
        \/ o = "Succeeded" /\ gets # <<>> /\ r.status = 200
        \/ o = "NotFound" /\ gets # <<>> /\ r.status = 404
                          /\ ErrorOf(r) \in NotFoundKinds
        \/ o = "UpstreamError" /\ gets # <<>> /\ r.status # 200
                               /\ ErrorOf(r) \in UpstreamErrorKinds
        \/ o = "NetworkError" /\ gets # <<>> /\ r.status = 502
                              /\ ErrorOf(r) \in NetworkErrorKinds
        \/ o = "Timeout" /\ gets # <<>> /\ r.status = 502
                         /\ ErrorOf(r) \in TimeoutKinds}

-----------------------------------------------------------------------------
(* C27: Mercury checks the column before the row *)

-----------------------------------------------------------------------------
(* C28: validation statuses and the upstream *)

ValidationStatuses == {400, 406, 422}
\* the kinds of error a handler reports for a failure of the upstream GET
FetchFailureKinds ==
    NotFoundKinds \cup UpstreamErrorKinds \cup NetworkErrorKinds \cup TimeoutKinds

\* C28 as stated: a client-facing status 400, 406 or 422 on a tile endpoint
\* implies that no upstream GET was issued for the request; these statuses
\* are never produced as the result of an upstream response.
C28_ValidationStatusMeansNoFetch ==
    pc = "done" /\ resp.status \in ValidationStatuses => gets = <<>>

\* C28 amended: every validation failure is reported before any upstream GET
\* (a response whose error kind is not one of the fetch-failure kinds belongs
\* to a request that issued no GET), and for Mercury a status 400, 406 or 422
\* implies that no GET was issued. For Earth, Moon and Mars the status alone
\* does not: they pass an upstream error status through, so a client status
\* 400, 406 or 422 after a GET is exactly an upstream response with that
\* status, reported with the upstream-error kind and the requested URL.
C28_ValidationKindMeansNoFetch ==
    pc = "done" /\ resp.status \in ValidationStatuses =>
      /\ ErrorOf(resp) \notin FetchFailureKinds => gets = <<>>
      /\ req.body = "mercury" => gets = <<>>
      /\ gets # <<>> =>
           /\ req.body \in {"earth", "moon", "mars"}
           /\ response.kind = "response"
           /\ response.status = resp.status
           /\ ErrorOf(resp) \in UpstreamErrorKinds
           /\ resp.detail.requested_url = tile_url

\* a Moon request was fetched, the upstream answered 400 and the client got
\* 400 with the upstream-error kind
C28_Witness ==
    /\ Answered
    /\ req.body = "moon"
    /\ response.kind = "response"
    /\ response.status = 400
    /\ resp.status = 400
    /\ ErrorOf(resp) \in UpstreamErrorKinds

-----------------------------------------------------------------------------
(* C29: Mercury uses the caller's format string verbatim *)

\* the last n characters of s
Suffix(s, n) == SubSeq(s, Len(s) - n + 1, Len(s))

\* C29: Mercury's format check compares the lower-cased format with "jpg",
\* the rest of the handler uses the caller's string as given. A request that
\* passes the other checks is fetched exactly when its format is jpg in some
\* letter case; the URL fetched ends with "." followed by the caller's string
\* unchanged (".JPG" for format=JPG); and on success the X-Tile-Format header
\* equals that string and the Content-Type is image/jpeg.
C29_MercuryFormatVerbatim ==
    Handled /\ req.body = "mercury" =>
      /\ MercuryQueryErrors(req) = {} /\ InBounds(req)
           => (gets # <<>> <=> lower(req.format) = S_jpg)
      /\ gets # <<>> =>
           /\ lower(req.format) = S_jpg
           /\ Suffix(tile_url, Len(req.format) + 1) = S_dot \o req.format
           /\ gets = <<tile_url>>
      /\ pc = "done" /\ resp.status = 200 =>
           /\ resp.headers["X-Tile-Format"] = req.format
           /\ resp.media_type = "image/jpeg"

\* format=JPG was fetched from a URL ending in .JPG and answered 200
C29_Witness ==
    /\ Answered
    /\ req.body = "mercury"
    /\ req.format = S_JPG
    /\ Suffix(tile_url, 4) = <<".", "J", "P", "G">>
    /\ resp.status = 200
    /\ resp.headers["X-Tile-Format"] = S_JPG
    /\ resp.media_type = "image/jpeg"

-----------------------------------------------------------------------------
(* C30: /proxy/earth/tile *)

\* C30: /proxy/earth/tile performs no date, zoom or coordinate validation.
\* Every request that supplies its required parameters (z, x, y, date, layer)
\* with well-typed values, whatever they are, issues exactly one upstream GET,
\* to {GIBS base}/{layer}/default/{date}/GoogleMapsCompatible_Level9/{z}/{y}/{x}.{format};
\* every upstream failure (any non-2xx status, 404 included, a timeout, a
\* connection failure) yields client status 502; a 2xx answer returns the
\* upstream bytes with Content-Type image/{format} and
\* Cache-Control "public, max-age=86400".
C30_ProxyForwardsUnvalidated ==
    Handled /\ req.body = "proxy" /\ req.missing = {} =>
      /\ gets = <<JoinSlash(<<GIBS_BASE_URL, req.layer, S_default, req.date,
                             EARTH_DEFAULT_TMS, IntToStr(req.z), IntToStr(req.y),
                             IntToStr(req.x) \o S_dot \o req.format>>)>>
      /\ pc = "done" =>
           IF Upstream2xx
           THEN /\ resp.status = 200
                /\ resp.content = response.content
                /\ resp.media_type = <<"i", "m", "a", "g", "e", "/">> \o req.format
                /\ resp.headers["Cache-Control"] = CacheControlOf("earth")
           ELSE resp.status = 502

\* zoom -1, an unparseable date and format gif: the request was fetched, the
\* upstream timed out and the client got 502
C30_Witness ==
    /\ Answered
    /\ req.body = "proxy"
    /\ req.missing = {}
    /\ req.z = -1
    /\ req.date = D_word
    /\ req.format = S_gif
    /\ response.kind = "timeout"
    /\ resp.status = 502

-----------------------------------------------------------------------------
(* C26: the zoom bounds of the profiles *)

\* C26: every body profile satisfies minZoom <= maxZoom and has a tile matrix
\* whose numbers of columns and rows do not decrease with the zoom, with
\* ceilings Earth 9, Moon 10, Mercury 7 and Mars 7 when the override is not
\* set; for Mars this holds for every integer the MARS_MAX_ZOOM environment
\* variable supplies at startup, so that some zoom level is accepted by the
\* Mars zoom validation.
C26_ProfilesWellFormed ==
    /\ EARTH_MAX_ZOOM = 9 /\ MOON_MAX_ZOOM = 10 /\ MERCURY_MAX_ZOOM = 7
    /\ int(getenv(EnvUnset, NatToStr(MARS_MAX_ZOOM_DEFAULT))).value = 7
    /\ \A z \in 0..MaxZoomInput :
         /\ Pow2(z) <= Pow2(z + 1)
         /\ max_tile_col(z) <= max_tile_col(z + 1)
         /\ max_tile_row(z) <= max_tile_row(z + 1)
    /\ MIN_ZOOM <= MAX_ZOOM
    /\ \E z \in ZoomInputs : validate_zoom_level(z, MAX_ZOOM) = NoResp

\* the server was started with MARS_MAX_ZOOM=-1 and the request for tile
\* 0/0/0 of the default layer was rejected with invalid_zoom
C26_Witness ==
    /\ MAX_ZOOM = -1
    /\ Rejected
    /\ req.body = "mars"
    /\ req.z = 0 /\ req.x = 0 /\ req.y = 0
    /\ req.layer = MARS_DEFAULT_LAYER
    /\ resp.status = 400
    /\ ErrorOf(resp) = "invalid_zoom"

-----------------------------------------------------------------------------
(* C23: concurrent requests are independent *)

\* the handler of request r running alone from the state the server starts in
Alone(r) == Started(r, QueryErrors(r), handler(r, MARS_MAX_ZOOM_DEFAULT))
Independent ==
    \A s \in Slots :
        LET h == handlers[s]
        IN h.pc # "idle" =>
             IF h.pc = "done" /\ h.gets # <<>>
             THEN h = Resumed(Alone(h.req), h.response, MARS_MAX_ZOOM_DEFAULT)
             ELSE h = Alone(h.req)
\* a step of one handler leaves every other handler as it was
OneHandlerPerStep ==
    \A s, t \in Slots :
        s # t /\ handlers'[s] # handlers[s] => handlers'[t] = handlers[t]

=============================================================================
